---- MODULE Spec2Model ----
(***************************************************************************)
(* Wasl: the REST API of a two-party messaging application.                *)
(*                                                                         *)
(* The stores are the three tables of the migration (profiles,             *)
(* conversations, messages).  Every storage method is one SQL statement    *)
(* and is atomic; a route handler is a sequence of such statements with an *)
(* await between them, so handlers of concurrent requests interleave at    *)
(* statement granularity.  Statements of one handler that only read rows   *)
(* no operation ever changes (the caller's profile in authenticateToken,   *)
(* the participants of a conversation) are taken together with the         *)
(* statement that follows them.                                            *)
(*                                                                         *)
(* Ids are uuids in the program; here a row's id is its position in the    *)
(* table.  Emails, usernames and passwords are small integers.  One clock  *)
(* serves now() of the database and new Date() of the server; its unit is  *)
(* half the lifetime of a token.                                           *)
(***************************************************************************)
EXTENDS Integers, Sequences, FiniteSets, TLC

\* ------------------------------------------------------------------ bounds
NumEmails == 2      \* emails offered to signup and signin
NumUsernames == 2   \* usernames offered to signup
NumPasswords == 2   \* passwords offered to signup and signin
NumUsers == 3       \* profiles registered in the chat specifications
MaxReqs == 2        \* requests in flight at once
MaxTime == 2        \* the clock stops here (account specification)
MaxChatTime == 1    \* the clock stops here (chat specifications)
MaxConvs == 2       \* conversation rows
MaxMsgs == 2        \* message rows
MaxIssued == 1      \* issued tokens that are tracked

\* --------------------------------------------------------------- constants
TokenTTL == 2       \* expiresIn: '7d', in clock units
JWT_SECRET == "your-secret-key"

VARIABLES
    profiles,       \* table profiles: sequence of rows, id = position
    conversations,  \* table conversations: sequence of rows, id = position
    messages,       \* table messages: sequence of rows, id = position
    now,            \* the clock
    req,            \* the requests in flight: slot -> handler position and locals
    issued,         \* tokens handed out by signup/signin that are tracked
    firstConv,      \* history: per pair of users, the id the first completed
                    \* POST /conversations for the pair returned (0: none yet)
    readState,      \* history: for the observed <<user, conversation>> pairs,
                    \* what the user's GET messages requests achieved (Observe)
    out,            \* the response sent by the last step, NoOut if it sent none
    client          \* the browser: the stored token and the state of the auth context

vars == <<profiles, conversations, messages, now, req, issued, firstConv, readState, out, client>>

Slots == 1..MaxReqs
Emails == 1..NumEmails
Usernames == 1..NumUsernames
Passwords == 1..NumPasswords
Users == 1..NumUsers
ConvIds == 1..MaxConvs
MsgIds == 1..MaxMsgs
Pairs == {{a, b} : a, b \in Users} \ {{a} : a \in Users}

\* ------------------------------------------------------- external libraries
\* bcrypt.hash / bcrypt.compare: the hash is not the password, and compare
\* accepts exactly the password that was hashed.
Hash(password) == <<"bcrypt", password>>
Compare(password, hashed) == hashed = Hash(password)

\* jwt.sign({ userId }, JWT_SECRET, { expiresIn: '7d' }) and jwt.verify.
NoToken == [userId |-> 0, exp |-> 0, sig |-> "absent"]
Sign(userId, secret, t) == [userId |-> userId, exp |-> t + TokenTTL, sig |-> secret]
\* A verification that refuses a token one clock unit before it expires.
VerifyEarly(token, secret, t) == token.sig = secret /\ t + 1 < token.exp
Verify(token, secret, t) == token.sig = secret /\ t < token.exp
ForgedToken == Sign(1, "not-the-secret", MaxTime)

\* ------------------------------------------------------------------ storage
RowsOf(table) == {table[i] : i \in 1..Len(table)}

getProfile(id) == {p \in RowsOf(profiles) : p.id = id}
getProfileByEmail(email) == {p \in RowsOf(profiles) : p.email = email}
getProfileByUsername(username) == {p \in RowsOf(profiles) : p.username = username}

\* A table profiles without the UNIQUE constraint on username.
ViolatedEmailOnly(email, username) ==
    {c \in {"profiles_email_unique"} : getProfileByEmail(email) # {}}

\* The UNIQUE constraints of table profiles: the constraints an insert of
\* (email, username) violates.
ViolatedConstraints(email, username) ==
    {c \in {"profiles_email_unique", "profiles_username_unique"} :
        \/ c = "profiles_email_unique" /\ getProfileByEmail(email) # {}
        \/ c = "profiles_username_unique" /\ getProfileByUsername(username) # {}}

\* Column default of table profiles that the insert does not set.
ProfileDefaults == [is_blocked |-> FALSE]
NewProfile(email, username, hashed) ==
    [id |-> Len(profiles) + 1, email |-> email, username |-> username,
     password |-> hashed, is_blocked |-> ProfileDefaults.is_blocked]

updateProfile(id, is_blocked) ==
    [i \in 1..Len(profiles) |->
        IF profiles[i].id = id
        THEN [profiles[i] EXCEPT !.is_blocked = is_blocked]
        ELSE profiles[i]]

\* The result sets of a SELECT ... ORDER BY: every arrangement of the rows in
\* ascending order of rank (rows that tie come in any order).
Orderings(rows, rank) ==
    {s \in [1..Cardinality(rows) -> rows] :
        \A i, j \in 1..Cardinality(rows) :
            i < j => (s[i] # s[j] /\ rank[s[i]] <= rank[s[j]])}

getConversation(id) == {c \in RowsOf(conversations) : c.id = id}

\* conversations LEFT JOIN profiles ON (the profile is the participant that is
\* not userId) WHERE userId is a participant ORDER BY updated_at DESC
JoinedRows(userId) ==
    LET mine == {c \in RowsOf(conversations) :
                    c.participant_1 = userId \/ c.participant_2 = userId}
        joins(c) == {p \in RowsOf(profiles) :
                        \/ c.participant_1 = p.id /\ c.participant_2 = userId
                        \/ c.participant_2 = p.id /\ c.participant_1 = userId}
        row(c, other) == [id |-> c.id, participant_1 |-> c.participant_1,
                          participant_2 |-> c.participant_2,
                          updated_at |-> c.updated_at, other_participant |-> other]
    IN  {row(cp[1], cp[2].id) :
            cp \in {x \in mine \X RowsOf(profiles) : x[2] \in joins(x[1])}}
        \cup {row(c, 0) : c \in {d \in mine : joins(d) = {}}}
\* The same rows, oldest update first.
getConversationsOldestFirst(userId) ==
    Orderings(JoinedRows(userId), [c \in JoinedRows(userId) |-> c.updated_at])
getConversationsForUser(userId) ==
    Orderings(JoinedRows(userId), [c \in JoinedRows(userId) |-> 0 - c.updated_at])

createConversation(participant_1, participant_2) ==
    Append(conversations,
           [id |-> Len(conversations) + 1, participant_1 |-> participant_1,
            participant_2 |-> participant_2, updated_at |-> now])

\* An update that leaves updated_at as it was.
updateConversationNoTouch(id) == conversations
updateConversation(id) ==
    [i \in 1..Len(conversations) |->
        IF conversations[i].id = id
        THEN [conversations[i] EXCEPT !.updated_at = now]
        ELSE conversations[i]]

getMessage(id) == {m \in RowsOf(messages) : m.id = id}

\* A query that leaves out the rows flagged deleted.
getMessagesNotDeleted(conversationId) ==
    Orderings({m \in RowsOf(messages) :
                  m.conversation_id = conversationId /\ ~m.is_deleted},
              [m \in RowsOf(messages) |-> m.created_at])
getMessagesForConversation(conversationId) ==
    Orderings({m \in RowsOf(messages) : m.conversation_id = conversationId},
              [m \in RowsOf(messages) |-> m.created_at])

\* An insert that stores "sending" whatever the handler passes.
createMessageAsSending(conversationId, senderId, status) ==
    Append(messages,
           [id |-> Len(messages) + 1, conversation_id |-> conversationId,
            sender_id |-> senderId, status |-> "sending", created_at |-> now,
            is_read |-> FALSE, is_deleted |-> FALSE])
\* Column defaults of table messages that the insert does not set.
MessageDefaults == [is_read |-> FALSE, is_deleted |-> FALSE]
createMessage(conversationId, senderId, status) ==
    Append(messages,
           [id |-> Len(messages) + 1, conversation_id |-> conversationId,
            sender_id |-> senderId, status |-> status, created_at |-> now,
            is_read |-> MessageDefaults.is_read,
            is_deleted |-> MessageDefaults.is_deleted])

updateMessage(id, is_deleted) ==
    [i \in 1..Len(messages) |->
        IF messages[i].id = id
        THEN [messages[i] EXCEPT !.is_deleted = is_deleted]
        ELSE messages[i]]

\* A count that skips the rows flagged deleted.
getUnreadLiveCount(conversationId, userId) ==
    Cardinality({m \in RowsOf(messages) :
                    /\ m.conversation_id = conversationId
                    /\ m.is_read = FALSE
                    /\ m.sender_id # userId
                    /\ ~m.is_deleted})
getUnreadMessagesCount(conversationId, userId) ==
    Cardinality({m \in RowsOf(messages) :
                    /\ m.conversation_id = conversationId
                    /\ m.is_read = FALSE
                    /\ m.sender_id # userId})

\* An update that selects the caller's own messages instead of the other's.
markOwnMessagesAsRead(conversationId, userId) ==
    [i \in 1..Len(messages) |->
        IF /\ messages[i].conversation_id = conversationId
           /\ messages[i].sender_id = userId
           /\ messages[i].is_read = FALSE
        THEN [messages[i] EXCEPT !.is_read = TRUE]
        ELSE messages[i]]
markMessagesAsRead(conversationId, userId) ==
    [i \in 1..Len(messages) |->
        IF /\ messages[i].conversation_id = conversationId
           /\ messages[i].sender_id # userId
           /\ messages[i].is_read = FALSE
        THEN [messages[i] EXCEPT !.is_read = TRUE]
        ELSE messages[i]]

\* ---------------------------------------------------------------- responses
\* A profile object left as the table holds it.
WithPassword(profile) == profile
\* { ...profile, password: undefined } as JSON: the object without the key.
WithoutPassword(profile) ==
    [k \in DOMAIN profile \ {"password"} |-> profile[k]]
\* The profile objects a response carries for the profiles with these ids.
Shown(ids) == {WithoutPassword(p) : p \in {q \in RowsOf(profiles) : q.id \in ids}}

NoOut ==
    [op |-> "none", status |-> 0, error |-> "", caller |-> 0, token |-> NoToken,
     id |-> 0, conv |-> 0, email |-> 0, username |-> 0, password |-> 0,
     other |-> 0, seen |-> 0, body |-> <<>>, after |-> <<>>, shown |-> {}]
Resp(op, status, error) == [NoOut EXCEPT !.op = op, !.status = status, !.error = error]

\* ----------------------------------------------------------------- requests
IdleReq ==
    [op |-> "idle", pc |-> "idle", user |-> 0, email |-> 0, username |-> 0,
     password |-> 0, conv |-> 0, other |-> 0, msg |-> 0, status |-> "",
     seen |-> 0, list |-> <<>>, last |-> <<>>, unread |-> <<>>, after |-> <<>>,
     pending |-> {}]
\* A request starts in the lowest slot that is free (slots are interchangeable).
Free(r) == req[r].pc = "idle" /\ \A s \in 1..(r - 1) : req[s].pc # "idle"

\* ------------------------------------------------------------ authentication
\* A middleware that turns blocked profiles away.
authenticateTokenUnlessBlocked(token) ==
    IF token = NoToken THEN [status |-> 401, error |-> "Access token required", user |-> 0]
    ELSE IF ~Verify(token, JWT_SECRET, now) THEN [status |-> 403, error |-> "Invalid token", user |-> 0]
    ELSE IF \A p \in RowsOf(profiles) : p.id # token.userId \/ p.is_blocked
    THEN [status |-> 401, error |-> "Invalid token", user |-> 0]
    ELSE [status |-> 200, error |-> "", user |-> token.userId]
\* A middleware that trusts a verified token without looking the profile up.
authenticateTokenUnchecked(token) ==
    IF token = NoToken THEN [status |-> 401, error |-> "Access token required", user |-> 0]
    ELSE IF ~Verify(token, JWT_SECRET, now) THEN [status |-> 403, error |-> "Invalid token", user |-> 0]
    ELSE [status |-> 200, error |-> "", user |-> token.userId]
\* authenticateToken: 401 without a token, 403 when verification throws,
\* 401 when the profile is gone; otherwise the handler runs as that profile.
authenticateToken(token) ==
    IF token = NoToken THEN [status |-> 401, error |-> "Access token required", user |-> 0]
    ELSE IF ~Verify(token, JWT_SECRET, now) THEN [status |-> 403, error |-> "Invalid token", user |-> 0]
    ELSE IF getProfile(token.userId) = {} THEN [status |-> 401, error |-> "Invalid token", user |-> 0]
    ELSE [status |-> 200, error |-> "", user |-> token.userId]

\* A protected route whose token is refused: the middleware answers and the
\* handler never runs, whatever the route.
Refused(token) ==
    /\ authenticateToken(token).status # 200
    /\ out' = [Resp("authenticateToken", authenticateToken(token).status,
                    authenticateToken(token).error) EXCEPT !.token = token]
    /\ UNCHANGED <<profiles, conversations, messages, now, req, issued, firstConv, readState, client>>

\* Tracking of an issued token: any issued token may be one of the tracked.
Track(token) ==
    \/ issued' = issued
    \/ Cardinality(issued) < MaxIssued /\ issued' = issued \cup {token}

\* ------------------------------------------------------ POST /api/auth/signup
\* parse, then getProfileByEmail
SignupCheckEmail(r, email, username, password) ==
    /\ Free(r)
    /\ IF getProfileByEmail(email) # {}
       THEN /\ out' = [Resp("signup", 400, "UserExists") EXCEPT
                          !.email = email, !.username = username]
            /\ req' = req
       ELSE /\ req' = [req EXCEPT ![r] = [IdleReq EXCEPT !.op = "signup",
                          !.pc = "checkUsername", !.email = email,
                          !.username = username, !.password = password]]
            /\ out' = NoOut
    /\ UNCHANGED <<profiles, conversations, messages, now, issued, firstConv, readState, client>>

\* getProfileByUsername
SignupCheckUsername(r) ==
    /\ req[r].op = "signup" /\ req[r].pc = "checkUsername"
    /\ IF getProfileByUsername(req[r].username) # {}
       THEN /\ out' = [Resp("signup", 400, "UsernameExists") EXCEPT
                          !.email = req[r].email, !.username = req[r].username]
            /\ req' = [req EXCEPT ![r] = IdleReq]
       ELSE /\ req' = [req EXCEPT ![r].pc = "create"]
            /\ out' = NoOut
    /\ UNCHANGED <<profiles, conversations, messages, now, issued, firstConv, readState, client>>

\* The text the catch block answers with for a duplicate-key error that names
\* the constraint.
DuplicateKeyMessage(constraint) ==
    IF constraint = "profiles_email_unique" THEN "EmailInUse" ELSE "UsernameInUse"

\* createProfile: the insert succeeds, or the database refuses it.
createProfile(email, username, hashed) ==
    IF ViolatedConstraints(email, username) = {}
    THEN {[ok |-> TRUE, constraint |-> "", rows |-> Append(profiles, NewProfile(email, username, hashed))]}
    ELSE {[ok |-> FALSE, constraint |-> c, rows |-> profiles] :
             c \in ViolatedConstraints(email, username)}

\* bcrypt.hash, createProfile, jwt.sign, respond; or the catch block
SignupCreate(r) ==
    /\ req[r].op = "signup" /\ req[r].pc = "create"
    /\ \E res \in createProfile(req[r].email, req[r].username, Hash(req[r].password)) :
        /\ profiles' = res.rows
        /\ IF res.ok
           THEN LET token == Sign(Len(profiles) + 1, JWT_SECRET, now) IN
                /\ out' = [Resp("signup", 200, "") EXCEPT
                              !.email = req[r].email, !.username = req[r].username,
                              !.id = Len(profiles) + 1, !.token = token,
                              !.shown = {WithoutPassword(p) : p \in
                                  {q \in RowsOf(res.rows) : q.id = Len(profiles) + 1}}]
                /\ Track(token)
           ELSE /\ out' = [Resp("signup", 400, DuplicateKeyMessage(res.constraint)) EXCEPT
                              !.email = req[r].email, !.username = req[r].username]
                /\ issued' = issued
    /\ req' = [req EXCEPT ![r] = IdleReq]
    /\ UNCHANGED <<conversations, messages, now, firstConv, readState, client>>

\* ------------------------------------------------------ POST /api/auth/signin
\* A handler that tells an unknown email from a wrong password.
SigninResponseLeaky(email, password) ==
    IF getProfileByEmail(email) = {}
    THEN [status |-> 404, error |-> "UserNotFound", token |-> NoToken, id |-> 0]
    ELSE LET user == CHOOSE p \in getProfileByEmail(email) : TRUE IN
         IF ~Compare(password, user.password)
         THEN [status |-> 400, error |-> "WrongEmailOrPassword", token |-> NoToken, id |-> 0]
         ELSE [status |-> 200, error |-> "", token |-> Sign(user.id, JWT_SECRET, now), id |-> user.id]

\* The answer of the handler to a well-formed payload.
SigninResponse(email, password) ==
    IF getProfileByEmail(email) = {}
    THEN [status |-> 400, error |-> "WrongEmailOrPassword", token |-> NoToken, id |-> 0]
    ELSE LET user == CHOOSE p \in getProfileByEmail(email) : TRUE IN
         IF ~Compare(password, user.password)
         THEN [status |-> 400, error |-> "WrongEmailOrPassword", token |-> NoToken, id |-> 0]
         ELSE [status |-> 200, error |-> "", token |-> Sign(user.id, JWT_SECRET, now), id |-> user.id]

Signin(email, password) ==
    LET res == SigninResponse(email, password) IN
    /\ out' = [Resp("signin", res.status, res.error) EXCEPT
                  !.email = email, !.password = password, !.token = res.token,
                  !.id = res.id, !.shown = Shown({res.id})]
    /\ IF res.status = 200 THEN Track(res.token) ELSE issued' = issued
    /\ UNCHANGED <<profiles, conversations, messages, now, req, firstConv, readState, client>>

\* ----------------------------------------------------- POST /api/auth/signout
Signout(token) ==
    /\ authenticateToken(token).status = 200
    /\ out' = [Resp("signout", 200, "") EXCEPT !.token = token,
                  !.caller = authenticateToken(token).user]
    /\ UNCHANGED <<profiles, conversations, messages, now, req, issued, firstConv, readState, client>>

\* -------------------------------------------------------- GET /api/auth/user
GetAuthUser(token) ==
    /\ authenticateToken(token).status = 200
    /\ out' = [Resp("getUser", 200, "") EXCEPT !.token = token,
                  !.caller = authenticateToken(token).user,
                  !.id = (CHOOSE p \in getProfile(authenticateToken(token).user) : TRUE).id,
                  !.shown = Shown({authenticateToken(token).user})]
    /\ UNCHANGED <<profiles, conversations, messages, now, req, issued, firstConv, readState, client>>

\* -------------------------------------------------------------------- clock
Tick(limit) ==
    /\ now < limit
    /\ now' = now + 1
    /\ out' = NoOut
    /\ UNCHANGED <<profiles, conversations, messages, req, issued, firstConv, readState, client>>

\* ---------------------------------------------------- POST /api/conversations
\* existingConversations.find(...): the first row of the list that joins the
\* two users, in either order (0: none).
FirstHit(list, hits) ==
    IF hits = {} THEN 0 ELSE list[CHOOSE i \in hits : \A j \in hits : i <= j].id
\* A find that looks for the pair in the caller's order only.
FindExistingOneWay(list, userId, otherId) ==
    FirstHit(list, {i \in 1..Len(list) :
        list[i].participant_1 = userId /\ list[i].participant_2 = otherId})
FindExisting(list, userId, otherId) ==
    FirstHit(list, {i \in 1..Len(list) :
        \/ list[i].participant_1 = userId /\ list[i].participant_2 = otherId
        \/ list[i].participant_1 = otherId /\ list[i].participant_2 = userId})

PairRows(a, b) ==
    {c \in RowsOf(conversations) : {c.participant_1, c.participant_2} = {a, b}}
InFlight(op) == {s \in Slots : req[s].op = op}
\* The table is capped at MaxConvs rows: a request that may insert starts only
\* if a row is left for it.
ConvRoom(a, b) ==
    \/ PairRows(a, b) # {}
    \/ Len(conversations) + Cardinality(InFlight("postConversation")) < MaxConvs

LogFirst(a, b, id) ==
    IF firstConv[{a, b}] = 0 THEN [firstConv EXCEPT ![{a, b}] = id] ELSE firstConv

\* A self check that never fires.
IsSelfNever(otherParticipant, userId) == FALSE
\* otherParticipant.id === userId
IsSelf(otherParticipant, userId) == otherParticipant.id = userId

\* parse, getProfileByUsername, the self check
PostConversationStart(r, token, username) ==
    LET auth == authenticateToken(token) IN
    /\ auth.status = 200
    /\ Free(r)
    /\ IF getProfileByUsername(username) = {}
       THEN /\ out' = Resp("postConversation", 404, "UserNotFound")
            /\ req' = req
       ELSE LET otherParticipant == CHOOSE p \in getProfileByUsername(username) : TRUE IN
            IF IsSelf(otherParticipant, auth.user)
            THEN /\ out' = Resp("postConversation", 400, "SelfConversation")
                 /\ req' = req
            ELSE /\ ConvRoom(auth.user, otherParticipant.id)
                 /\ req' = [req EXCEPT ![r] = [IdleReq EXCEPT
                               !.op = "postConversation", !.pc = "lookup",
                               !.user = auth.user, !.other = otherParticipant.id]]
                 /\ out' = NoOut
    /\ UNCHANGED <<profiles, conversations, messages, now, issued, firstConv, readState, client>>

\* getConversationsForUser and the find
PostConversationLookup(r) ==
    /\ req[r].op = "postConversation" /\ req[r].pc = "lookup"
    /\ \E list \in getConversationsForUser(req[r].user) :
        LET existingConv == FindExisting(list, req[r].user, req[r].other) IN
        IF existingConv # 0
        THEN /\ out' = [Resp("postConversation", 200, "") EXCEPT
                           !.caller = req[r].user, !.other = req[r].other,
                           !.id = existingConv, !.shown = Shown({req[r].other})]
             /\ firstConv' = LogFirst(req[r].user, req[r].other, existingConv)
             /\ req' = [req EXCEPT ![r] = IdleReq]
        ELSE /\ out' = NoOut
             /\ firstConv' = firstConv
             /\ req' = [req EXCEPT ![r].pc = "create"]
    /\ UNCHANGED <<profiles, conversations, messages, now, issued, readState, client>>

\* createConversation, respond
PostConversationCreate(r) ==
    /\ req[r].op = "postConversation" /\ req[r].pc = "create"
    /\ conversations' = createConversation(req[r].user, req[r].other)
    /\ out' = [Resp("postConversation", 200, "") EXCEPT
                  !.caller = req[r].user, !.other = req[r].other,
                  !.id = Len(conversations) + 1, !.shown = Shown({req[r].other})]
    /\ firstConv' = LogFirst(req[r].user, req[r].other, Len(conversations) + 1)
    /\ req' = [req EXCEPT ![r] = IdleReq]
    /\ UNCHANGED <<profiles, messages, now, issued, readState, client>>

\* POST /conversations requests that arrive one after the other.
PostConversationStartSeq(r, token, username) ==
    /\ InFlight("postConversation") = {}
    /\ PostConversationStart(r, token, username)

\* --------------------------------------------------- history of the readers
\* For an observed pair <<u, c>>:
\*   "none"       nothing is known
\*   "marked"     a GET messages of u for c ran markMessagesAsRead, and the
\*                other participant inserted no message since
\*   "doneClean"  moreover such a request of u has been answered
\*   "doneDirty"  a GET messages of u for c has been answered and the other
\*                participant inserted no message since the answer, but did
\*                insert one after the last markMessagesAsRead
Observe(pair, event) ==
    [w \in DOMAIN readState |->
        IF w # pair THEN readState[w]
        ELSE IF event = "mark"
        THEN (IF readState[w] \in {"doneDirty", "doneClean"} THEN "doneClean" ELSE "marked")
        ELSE (IF readState[w] \in {"marked", "doneClean"} THEN "doneClean" ELSE "doneDirty")]
\* A message inserted into conversation c by sender.
Unsettle(history, c, sender) ==
    [w \in DOMAIN history |->
        IF w[2] = c /\ w[1] # sender THEN "none" ELSE history[w]]

\* ------------------------------------- the membership check of the handlers
\* A check that lets every authenticated user through.
IsParticipantAnyone(conversation, userId) == conversation.id > 0
IsParticipant(conversation, userId) ==
    conversation.participant_1 = userId \/ conversation.participant_2 = userId

Member(c, userId) ==
    \E conversation \in getConversation(c) : IsParticipant(conversation, userId)

\* ------------------------------ GET /api/conversations/:conversationId/messages
\* getConversation and the membership check
GetMessagesStart(r, token, c) ==
    LET auth == authenticateToken(token) IN
    /\ auth.status = 200
    /\ Free(r)
    /\ IF ~Member(c, auth.user)
       THEN /\ out' = [Resp("getMessages", 403, "Access denied") EXCEPT
                          !.caller = auth.user, !.conv = c]
            /\ req' = req
       ELSE /\ req' = [req EXCEPT ![r] = [IdleReq EXCEPT
                          !.op = "getMessages", !.pc = "select",
                          !.user = auth.user, !.conv = c]]
            /\ out' = NoOut
    /\ UNCHANGED <<profiles, conversations, messages, now, issued, firstConv, readState, client>>

\* getMessagesForConversation; the handler keeps the rows (here: their ids)
GetMessagesSelect(r) ==
    /\ req[r].op = "getMessages" /\ req[r].pc = "select"
    /\ \E list \in getMessagesForConversation(req[r].conv) :
        req' = [req EXCEPT ![r].pc = "mark", ![r].seen = Len(messages),
                           ![r].list = [i \in 1..Len(list) |-> list[i].id]]
    /\ out' = NoOut
    /\ UNCHANGED <<profiles, conversations, messages, now, issued, firstConv, readState, client>>

\* markMessagesAsRead
GetMessagesMark(r) ==
    /\ req[r].op = "getMessages" /\ req[r].pc = "mark"
    /\ messages' = markMessagesAsRead(req[r].conv, req[r].user)
    /\ readState' = Observe(<<req[r].user, req[r].conv>>, "mark")
    /\ req' = [req EXCEPT ![r].pc = "respond"]
    /\ out' = NoOut
    /\ UNCHANGED <<profiles, conversations, now, issued, firstConv, client>>

\* getProfile of every sender, respond
GetMessagesRespond(r) ==
    /\ req[r].op = "getMessages" /\ req[r].pc = "respond"
    /\ out' = [Resp("getMessages", 200, "") EXCEPT
                  !.caller = req[r].user, !.conv = req[r].conv,
                  !.seen = req[r].seen,
                  !.shown = Shown({messages[req[r].list[i]].sender_id :
                                      i \in 1..Len(req[r].list)}),
                  !.body = [i \in 1..Len(req[r].list) |->
                      LET message == messages[req[r].list[i]] IN
                      [id |-> message.id, conversation_id |-> message.conversation_id,
                       sender_id |-> message.sender_id, status |-> message.status,
                       created_at |-> message.created_at,
                       sender |-> IF getProfile(message.sender_id) = {} THEN 0
                                  ELSE message.sender_id]]]
    /\ readState' = Observe(<<req[r].user, req[r].conv>>, "respond")
    /\ req' = [req EXCEPT ![r] = IdleReq]
    /\ UNCHANGED <<profiles, conversations, messages, now, issued, firstConv, client>>

\* ----------------------------- POST /api/conversations/:conversationId/messages
\* The table is capped: a send starts only if a row is left for it.
MsgRoom(limit) ==
    Len(messages) + Cardinality({s \in InFlight("postMessage") : req[s].pc = "insert"})
        < limit

\* The statuses a body may name, and a body that names none.
Statuses == {"sending", "sent", "failed", "delivered"}
NoStatus == "absent"
\* The status the chat area's sendMessage puts in the body when online.
ClientStatus == "sent"

\* parse (status = "sent" when the body names none), getConversation and the
\* membership check
PostMessageStart(r, token, c, status) ==
    LET auth == authenticateToken(token) IN
    /\ auth.status = 200
    /\ Free(r)
    /\ IF ~Member(c, auth.user)
       THEN /\ out' = [Resp("postMessage", 403, "Access denied") EXCEPT
                          !.caller = auth.user, !.conv = c]
            /\ req' = req
       ELSE /\ req' = [req EXCEPT ![r] = [IdleReq EXCEPT
                          !.op = "postMessage", !.pc = "insert",
                          !.user = auth.user, !.conv = c,
                          !.status = IF status = NoStatus THEN "sent" ELSE status]]
            /\ out' = NoOut
    /\ UNCHANGED <<profiles, conversations, messages, now, issued, firstConv, readState, client>>

\* createMessage
PostMessageInsert(r) ==
    /\ req[r].op = "postMessage" /\ req[r].pc = "insert"
    /\ messages' = createMessage(req[r].conv, req[r].user, req[r].status)
    /\ readState' = Unsettle(readState, req[r].conv, req[r].user)
    /\ req' = [s \in Slots |->
                  IF s = r
                  THEN [req[r] EXCEPT !.pc = "bump", !.msg = Len(messages) + 1]
                  ELSE IF req[s].op = "getConversations"
                  THEN [req[s] EXCEPT !.after = Unsettle(@, req[r].conv, req[r].user)]
                  ELSE req[s]]
    /\ out' = NoOut
    /\ UNCHANGED <<profiles, conversations, now, issued, firstConv, client>>

\* updateConversation, respond
PostMessageBump(r) ==
    /\ req[r].op = "postMessage" /\ req[r].pc = "bump"
    /\ conversations' = updateConversation(req[r].conv)
    /\ out' = [Resp("postMessage", 200, "") EXCEPT
                  !.caller = req[r].user, !.conv = req[r].conv, !.id = req[r].msg,
                  !.shown = Shown({req[r].user})]
    /\ req' = [req EXCEPT ![r] = IdleReq]
    /\ UNCHANGED <<profiles, messages, now, issued, firstConv, readState, client>>

\* A failure path that takes the inserted row back.
PostMessageBumpRollsBack(r) ==
    /\ req[r].op = "postMessage" /\ req[r].pc = "bump"
    /\ messages' = SubSeq(messages, 1, req[r].msg - 1)
    /\ out' = [Resp("postMessage", 400, "Failed to send message") EXCEPT
                  !.caller = req[r].user, !.conv = req[r].conv, !.id = req[r].msg]
    /\ req' = [req EXCEPT ![r] = IdleReq]
    /\ UNCHANGED <<profiles, conversations, now, issued, firstConv, readState, client>>
\* updateConversation throws (the database refuses or is gone): the catch
\* block answers 400 and nothing is undone
PostMessageBumpFails(r) ==
    /\ req[r].op = "postMessage" /\ req[r].pc = "bump"
    /\ messages' = messages
    /\ out' = [Resp("postMessage", 400, "Failed to send message") EXCEPT
                  !.caller = req[r].user, !.conv = req[r].conv, !.id = req[r].msg]
    /\ req' = [req EXCEPT ![r] = IdleReq]
    /\ UNCHANGED <<profiles, conversations, now, issued, firstConv, readState, client>>

\* ------------------------------------------- DELETE /api/messages/:messageId
\* A check that accepts either participant of the message's conversation.
IsSenderOrPeer(message, userId) == Member(message.conversation_id, userId)
IsSender(message, userId) == message.sender_id = userId

\* getMessage and the sender check
DeleteMessageStart(r, token, m) ==
    LET auth == authenticateToken(token) IN
    /\ auth.status = 200
    /\ Free(r)
    /\ IF getMessage(m) = {}
       THEN /\ out' = Resp("deleteMessage", 404, "MessageNotFound")
            /\ req' = req
       ELSE IF ~IsSender(CHOOSE message \in getMessage(m) : TRUE, auth.user)
       THEN /\ out' = [Resp("deleteMessage", 403, "NotYourMessage") EXCEPT
                          !.caller = auth.user, !.id = m]
            /\ req' = req
       ELSE /\ req' = [req EXCEPT ![r] = [IdleReq EXCEPT
                          !.op = "deleteMessage", !.pc = "update",
                          !.user = auth.user, !.msg = m]]
            /\ out' = NoOut
    /\ UNCHANGED <<profiles, conversations, messages, now, issued, firstConv, readState, client>>

\* updateMessage, respond
DeleteMessageUpdate(r) ==
    /\ req[r].op = "deleteMessage" /\ req[r].pc = "update"
    /\ messages' = updateMessage(req[r].msg, TRUE)
    /\ out' = [Resp("deleteMessage", 200, "") EXCEPT
                  !.caller = req[r].user, !.id = req[r].msg]
    /\ req' = [req EXCEPT ![r] = IdleReq]
    /\ UNCHANGED <<profiles, conversations, now, issued, firstConv, readState, client>>

\* ------------------------------------- DELETE /api/conversations/:conversationId
\* getConversation, the existence check and the membership check
DeleteConversationStart(r, token, c) ==
    LET auth == authenticateToken(token) IN
    /\ auth.status = 200
    /\ Free(r)
    /\ IF getConversation(c) = {}
       THEN /\ out' = [Resp("deleteConversation", 404, "ConversationNotFound") EXCEPT
                          !.caller = auth.user, !.conv = c]
            /\ req' = req
       ELSE IF ~IsParticipant(CHOOSE conversation \in getConversation(c) : TRUE, auth.user)
       THEN /\ out' = [Resp("deleteConversation", 403, "NotYourConversation") EXCEPT
                          !.caller = auth.user, !.conv = c]
            /\ req' = req
       ELSE /\ req' = [req EXCEPT ![r] = [IdleReq EXCEPT
                          !.op = "deleteConversation", !.pc = "select",
                          !.user = auth.user, !.conv = c, !.seen = Len(messages)]]
            /\ out' = NoOut
    /\ UNCHANGED <<profiles, conversations, messages, now, issued, firstConv, readState, client>>

\* getMessagesForConversation; one updateMessage per row is then started
DeleteConversationSelect(r) ==
    /\ req[r].op = "deleteConversation" /\ req[r].pc = "select"
    /\ \E list \in getMessagesForConversation(req[r].conv) :
        req' = [req EXCEPT ![r].pc = "update",
                           ![r].pending = {list[i].id : i \in 1..Len(list)}]
    /\ out' = NoOut
    /\ UNCHANGED <<profiles, conversations, messages, now, issued, firstConv, readState, client>>

\* updateMessage of one of the rows; the updates run in any order (Promise.all)
DeleteConversationUpdate(r, m) ==
    /\ req[r].op = "deleteConversation" /\ req[r].pc = "update"
    /\ m \in req[r].pending
    /\ messages' = updateMessage(m, TRUE)
    /\ req' = [req EXCEPT ![r].pending = @ \ {m}]
    /\ out' = NoOut
    /\ UNCHANGED <<profiles, conversations, now, issued, firstConv, readState, client>>

\* respond once every update is through
DeleteConversationRespond(r) ==
    /\ req[r].op = "deleteConversation" /\ req[r].pc = "update"
    /\ req[r].pending = {}
    /\ out' = [Resp("deleteConversation", 200, "") EXCEPT
                  !.caller = req[r].user, !.conv = req[r].conv, !.seen = req[r].seen]
    /\ req' = [req EXCEPT ![r] = IdleReq]
    /\ UNCHANGED <<profiles, conversations, messages, now, issued, firstConv, readState, client>>

\* ------------------------------------------------------ GET /api/conversations
\* getConversationsForUser; the details of the rows are fetched by callbacks
\* that run in any order (Promise.all)
GetConversationsStart(r, token) ==
    LET auth == authenticateToken(token) IN
    /\ auth.status = 200
    /\ Free(r)
    /\ \E list \in getConversationsForUser(auth.user) :
        req' = [req EXCEPT ![r] = [IdleReq EXCEPT
                   !.op = "getConversations", !.pc = "details",
                   !.user = auth.user, !.list = list,
                   !.last = [k \in 1..Len(list) |-> -1],
                   !.unread = [k \in 1..Len(list) |-> -1],
                   !.after = readState]]
    /\ out' = NoOut
    /\ UNCHANGED <<profiles, conversations, messages, now, issued, firstConv, readState, client>>

\* getProfile of the other participant, getMessagesForConversation: the last row
GetConversationsMessages(r, k) ==
    /\ req[r].op = "getConversations" /\ req[r].pc = "details"
    /\ k \in 1..Len(req[r].list) /\ req[r].last[k] = -1
    /\ \E list \in getMessagesForConversation(req[r].list[k].id) :
        req' = [req EXCEPT ![r].last[k] =
                   IF Len(list) = 0 THEN 0 ELSE list[Len(list)].id]
    /\ out' = NoOut
    /\ UNCHANGED <<profiles, conversations, messages, now, issued, firstConv, readState, client>>

\* getUnreadMessagesCount
GetConversationsUnread(r, k) ==
    /\ req[r].op = "getConversations" /\ req[r].pc = "details"
    /\ k \in 1..Len(req[r].list) /\ req[r].last[k] # -1 /\ req[r].unread[k] = -1
    /\ req' = [req EXCEPT ![r].unread[k] =
                  getUnreadMessagesCount(req[r].list[k].id, req[r].user)]
    /\ out' = NoOut
    /\ UNCHANGED <<profiles, conversations, messages, now, issued, firstConv, readState, client>>

\* respond once every callback is through
GetConversationsRespond(r) ==
    /\ req[r].op = "getConversations" /\ req[r].pc = "details"
    /\ \A k \in 1..Len(req[r].list) : req[r].unread[k] # -1
    /\ out' = [Resp("getConversations", 200, "") EXCEPT
                  !.caller = req[r].user, !.after = req[r].after,
                  !.shown = Shown({IF req[r].list[k].participant_1 = req[r].user
                                   THEN req[r].list[k].participant_2
                                   ELSE req[r].list[k].participant_1 :
                                      k \in 1..Len(req[r].list)}),
                  !.body = [k \in 1..Len(req[r].list) |->
                      LET conv == req[r].list[k]
                          otherParticipantId ==
                              IF conv.participant_1 = req[r].user
                              THEN conv.participant_2 ELSE conv.participant_1
                      IN  [id |-> conv.id,
                           updated_at |-> conv.updated_at,
                           other_participant |->
                               IF getProfile(otherParticipantId) = {} THEN 0
                               ELSE otherParticipantId,
                           last_message |-> req[r].last[k],
                           unread_count |-> req[r].unread[k]]]]
    /\ req' = [req EXCEPT ![r] = IdleReq]
    /\ UNCHANGED <<profiles, conversations, messages, now, issued, firstConv, readState, client>>

\* ------------------------------------------------------------- /api/profiles
\* POST /api/profiles/:userId/block: the self check, getProfile, updateProfile
BlockProfile(token, userId) ==
    LET auth == authenticateToken(token) IN
    /\ auth.status = 200
    /\ IF userId = auth.user
       THEN /\ out' = [Resp("blockProfile", 400, "CannotBlockSelf") EXCEPT
                          !.caller = auth.user, !.id = userId]
            /\ profiles' = profiles
       ELSE IF getProfile(userId) = {}
       THEN /\ out' = [Resp("blockProfile", 404, "UserNotFound") EXCEPT
                          !.caller = auth.user, !.id = userId]
            /\ profiles' = profiles
       ELSE /\ out' = [Resp("blockProfile", 200, "") EXCEPT
                          !.caller = auth.user, !.id = userId]
            /\ profiles' = updateProfile(userId, TRUE)
    /\ UNCHANGED <<conversations, messages, now, req, issued, firstConv, readState, client>>

\* GET /api/profiles/search: getProfileByUsername, 404 or the profile
ProfileSearch(token, username) ==
    /\ authenticateToken(token).status = 200
    /\ out' = IF getProfileByUsername(username) = {}
              THEN Resp("searchProfile", 404, "UserNotFound")
              ELSE [Resp("searchProfile", 200, "") EXCEPT
                       !.shown = {WithoutPassword(p) : p \in getProfileByUsername(username)}]
    /\ UNCHANGED <<profiles, conversations, messages, now, req, issued, firstConv,
                   readState, client>>

\* GET /api/profiles/search-by-email: getProfileByEmail, 404 or the profile
ProfileSearchByEmail(token, email) ==
    /\ authenticateToken(token).status = 200
    /\ out' = IF getProfileByEmail(email) = {}
              THEN Resp("searchProfileByEmail", 404, "UserNotFound")
              ELSE [Resp("searchProfileByEmail", 200, "") EXCEPT
                       !.shown = {WithoutPassword(p) : p \in getProfileByEmail(email)}]
    /\ UNCHANGED <<profiles, conversations, messages, now, req, issued, firstConv,
                   readState, client>>

\* PATCH /api/profiles/me: updateProfile sets full_name, avatar_url and
\* updated_at, columns the rows here do not carry, and returns the row
PatchProfile(token) ==
    /\ authenticateToken(token).status = 200
    /\ out' = [Resp("patchProfile", 200, "") EXCEPT
                  !.caller = authenticateToken(token).user,
                  !.shown = {WithoutPassword(p) :
                                p \in getProfile(authenticateToken(token).user)}]
    /\ UNCHANGED <<profiles, conversations, messages, now, req, issued, firstConv,
                   readState, client>>

\* --------------------------------------------- the browser: AuthProvider
\* localStorage 'authToken' (authToken), apiClient.token (token), the state of
\* the provider (user, session, loading) and its calls that wait for an
\* answer, each with the Authorization header it was sent with; the last
\* toast raised; and the state of the chat area (conversation, messages,
\* newMessage, its loading flag as sending, isOnline) with its calls that wait
\* for an answer (fetches, sends).
NoSession == [access_token |-> NoToken, user |-> 0]
NoClient ==
    [authToken |-> NoToken, token |-> NoToken, user |-> 0, session |-> NoSession,
     loading |-> TRUE, check |-> "start", checkSent |-> NoToken,
     signIn |-> "idle", email |-> 0, username |-> 0, password |-> 0,
     signOut |-> "idle",
     refresh |-> "idle", refreshSent |-> NoToken, refreshSession |-> NoSession,
     toast |-> "",
     conversation |-> 0, messages |-> <<>>, newMessage |-> "", sending |-> FALSE,
     isOnline |-> TRUE, fetches |-> <<>>, sends |-> <<>>]
server == <<profiles, conversations, messages, now, req, issued, firstConv, readState, out>>

\* ApiClient.setToken and clearToken write the field and localStorage together.
setToken(c, token) == [c EXCEPT !.token = token, !.authToken = token]
clearToken(c) == [c EXCEPT !.token = NoToken, !.authToken = NoToken]

\* What AppContent shows: the spinner while loading, AuthPage without a user,
\* the chat otherwise.
AuthPageShown == ~client.loading /\ client.user = 0
ChatShown == ~client.loading /\ client.user # 0

\* checkAuthState up to its await
checkAuthState ==
    /\ client.check = "start"
    /\ IF client.authToken = NoToken
       THEN client' = [client EXCEPT !.loading = FALSE, !.check = "done"]
       ELSE client' = [setToken(client, client.authToken) EXCEPT
                          !.check = "await", !.checkSent = client.authToken]
    /\ UNCHANGED server

\* getCurrentUser is answered (GET /api/auth/user), or fetch fails
checkAuthStateAnswered(reached) ==
    LET auth == authenticateToken(client.checkSent) IN
    /\ client.check = "await"
    /\ IF reached /\ auth.status = 200
       THEN client' = [client EXCEPT
                          !.user = auth.user,
                          !.session = [access_token |-> client.checkSent, user |-> auth.user],
                          !.loading = FALSE, !.check = "done"]
       ELSE client' = [clearToken(client) EXCEPT !.loading = FALSE, !.check = "done"]
    /\ UNCHANGED server

\* signIn up to its await
signIn(email, password) ==
    /\ AuthPageShown /\ client.signIn = "idle"
    /\ client' = [client EXCEPT !.loading = TRUE, !.signIn = "signin",
                                !.email = email, !.password = password]
    /\ UNCHANGED server

\* POST /api/auth/signin is answered, or fetch fails
signInAnswered(reached) ==
    LET res == SigninResponse(client.email, client.password) IN
    /\ client.signIn = "signin"
    /\ IF reached /\ res.status = 200
       THEN client' = [setToken(client, res.token) EXCEPT
                          !.user = res.id,
                          !.session = [access_token |-> res.token, user |-> res.id],
                          !.loading = FALSE, !.signIn = "idle",
                          !.email = 0, !.password = 0]
       ELSE client' = [client EXCEPT !.loading = FALSE, !.signIn = "idle",
                                     !.email = 0, !.password = 0,
                                     !.toast = "signInError"]
    /\ UNCHANGED server

\* signUp up to its await
signUp(email, username, password) ==
    /\ AuthPageShown /\ client.signIn = "idle"
    /\ client' = [client EXCEPT !.loading = TRUE, !.signIn = "signup",
                                !.email = email, !.username = username,
                                !.password = password]
    /\ UNCHANGED server

\* POST /api/auth/signup is answered, or fetch fails before the server is
\* reached; the handler's checks and its insert are taken in one step
signUpAnswered(reached) ==
    /\ client.signIn = "signup"
    /\ IF /\ reached
          /\ getProfileByEmail(client.email) = {}
          /\ getProfileByUsername(client.username) = {}
       THEN \E res \in createProfile(client.email, client.username, Hash(client.password)) :
               /\ res.ok
               /\ profiles' = res.rows
               /\ client' = [setToken(client, Sign(Len(profiles) + 1, JWT_SECRET, now)) EXCEPT
                                 !.user = Len(profiles) + 1,
                                 !.session = [access_token |-> Sign(Len(profiles) + 1, JWT_SECRET, now),
                                              user |-> Len(profiles) + 1],
                                 !.loading = FALSE, !.signIn = "idle",
                                 !.email = 0, !.username = 0, !.password = 0,
                                 !.toast = "signedUp"]
       ELSE /\ profiles' = profiles
            /\ client' = [client EXCEPT !.loading = FALSE, !.signIn = "idle",
                                        !.email = 0, !.username = 0, !.password = 0,
                                        !.toast = "signUpError"]
    /\ UNCHANGED <<conversations, messages, now, req, issued, firstConv, readState, out>>

\* signOut up to its await
signOut ==
    /\ ChatShown /\ client.signOut = "idle"
    /\ client' = [client EXCEPT !.signOut = "await"]
    /\ UNCHANGED server

\* A signOut that gives up when the request fails.
signOutAnsweredIfReached(reached) ==
    /\ client.signOut = "await"
    /\ client' = IF reached
                 THEN [clearToken(client) EXCEPT
                          !.user = 0, !.session = NoSession, !.signOut = "idle",
                          !.toast = "signedOut"]
                 ELSE [client EXCEPT !.signOut = "idle"]
    /\ UNCHANGED server
\* POST /api/auth/signout is answered or fails: the rest runs either way
signOutAnswered(reached) ==
    /\ client.signOut = "await"
    /\ client' = [clearToken(client) EXCEPT
                      !.user = 0, !.session = NoSession, !.signOut = "idle",
                      !.toast = "signedOut"]
    /\ UNCHANGED server

\* refreshUser up to its await; session is the one of the render that made
\* the function
refreshUser ==
    /\ ChatShown /\ client.refresh = "idle"
    /\ client' = [client EXCEPT !.refresh = "await", !.refreshSent = client.token,
                                !.refreshSession = client.session]
    /\ UNCHANGED server

\* getCurrentUser is answered, or fetch fails
refreshUserAnswered(reached) ==
    LET auth == authenticateToken(client.refreshSent) IN
    /\ client.refresh = "await"
    /\ IF reached /\ auth.status = 200
       THEN client' = [client EXCEPT
                          !.user = auth.user,
                          !.session = IF client.refreshSession # NoSession
                                      THEN [client.refreshSession EXCEPT !.user = auth.user]
                                      ELSE @,
                          !.refresh = "idle", !.refreshSent = NoToken,
                          !.refreshSession = NoSession]
       ELSE client' = [client EXCEPT !.refresh = "idle", !.refreshSent = NoToken,
                                     !.refreshSession = NoSession]
    /\ UNCHANGED server

\* The clock, seen from the browser.
ClientTick(limit) ==
    /\ now < limit
    /\ now' = now + 1
    /\ UNCHANGED <<profiles, conversations, messages, req, issued, firstConv, readState,
                   out, client>>

\* ------------------------------------------------------------ specification
\* Tokens a client may present: none, one made without the secret, and the
\* tracked ones.
PresentedTokens == {NoToken, ForgedToken} \cup issued

Init ==
    /\ profiles = <<>>
    /\ conversations = <<>>
    /\ messages = <<>>
    /\ now = 0
    /\ req = [r \in Slots |-> IdleReq]
    /\ issued = {}
    /\ firstConv = [pr \in Pairs |-> 0]
    /\ readState = <<>>
    /\ out = NoOut
    /\ client = NoClient

Next ==
    \/ \E r \in Slots, e \in Emails, u \in Usernames, p \in Passwords :
          SignupCheckEmail(r, e, u, p)
    \/ \E r \in Slots : SignupCheckUsername(r)
    \/ \E r \in Slots : SignupCreate(r)
    \/ \E e \in Emails, p \in Passwords : Signin(e, p)
    \/ \E t \in PresentedTokens : Refused(t)
    \/ \E t \in PresentedTokens : Signout(t)
    \/ \E t \in PresentedTokens : GetAuthUser(t)
    \/ Tick(MaxTime)

Spec == Init /\ [][Next]_vars

\* The chat specifications start from registered accounts: NumUsers signups
\* (email, username and password u for user u) have completed at time 0.
RegisteredProfiles ==
    [u \in Users |-> [id |-> u, email |-> u, username |-> u, password |-> Hash(u),
                      is_blocked |-> ProfileDefaults.is_blocked]]
\* Tokens a client may present there: none, one made without the secret, and
\* for every user the token of a signin just now.  A request whose token the
\* middleware refuses runs no handler and changes nothing (Refused); the chat
\* specifications leave those answers out.
ChatTokens ==
    {NoToken, ForgedToken} \cup {Sign(u, JWT_SECRET, now) : u \in Users}

InitConv ==
    /\ profiles = RegisteredProfiles
    /\ conversations = <<>>
    /\ messages = <<>>
    /\ now = 0
    /\ req = [r \in Slots |-> IdleReq]
    /\ issued = {}
    /\ firstConv = [pr \in Pairs |-> 0]
    /\ readState = <<>>
    /\ out = NoOut
    /\ client = NoClient

\* Conversation creation, requests interleaving freely.
NextConv ==
    \/ \E r \in Slots, t \in ChatTokens, name \in 1..(NumUsers + 1) :
          PostConversationStart(r, t, name)
    \/ \E r \in Slots : PostConversationLookup(r)
    \/ \E r \in Slots : PostConversationCreate(r)
    \/ Tick(MaxChatTime)

SpecConv == InitConv /\ [][NextConv]_vars

\* Conversation creation, one POST /conversations at a time.
NextConvSeq ==
    \/ \E r \in Slots, t \in ChatTokens, name \in 1..(NumUsers + 1) :
          PostConversationStartSeq(r, t, name)
    \/ \E r \in Slots : PostConversationLookup(r)
    \/ \E r \in Slots : PostConversationCreate(r)
    \/ Tick(MaxChatTime)

SpecConvSeq == InitConv /\ [][NextConvSeq]_vars

\* The message specification starts after user 1 opened a conversation with
\* user 2 and user 2 one with user 3, both at time 0.
InitMsg ==
    /\ profiles = RegisteredProfiles
    /\ conversations =
          <<[id |-> 1, participant_1 |-> 1, participant_2 |-> 2, updated_at |-> 0],
            [id |-> 2, participant_1 |-> 2, participant_2 |-> 3, updated_at |-> 0]>>
    /\ messages = <<>>
    /\ now = 0
    /\ req = [r \in Slots |-> IdleReq]
    /\ issued = {}
    /\ firstConv = [pr \in Pairs |->
                       IF pr = {1, 2} THEN 1 ELSE IF pr = {2, 3} THEN 2 ELSE 0]
    /\ readState = <<>>
    /\ out = NoOut
    /\ client = NoClient

\* No request is in flight.
Quiet == \A s \in Slots : req[s].pc = "idle"

\* Messages: reading, sending and deleting, one request at a time.
NextMsgSeq ==
    \/ Quiet /\ \E r \in Slots, t \in ChatTokens, c \in ConvIds : GetMessagesStart(r, t, c)
    \/ \E r \in Slots : GetMessagesSelect(r)
    \/ \E r \in Slots : GetMessagesMark(r)
    \/ \E r \in Slots : GetMessagesRespond(r)
    \/ Quiet /\ MsgRoom(MaxMsgs) /\
          \E r \in Slots, t \in ChatTokens, c \in ConvIds :
              PostMessageStart(r, t, c, ClientStatus)
    \/ \E r \in Slots : PostMessageInsert(r)
    \/ \E r \in Slots : PostMessageBump(r)
    \/ Quiet /\ \E r \in Slots, t \in ChatTokens, m \in MsgIds : DeleteMessageStart(r, t, m)
    \/ \E r \in Slots : DeleteMessageUpdate(r)
    \/ Tick(MaxChatTime)

SpecMsgSeq == InitMsg /\ [][NextMsgSeq]_vars

\* Sending: concurrent sends into the two conversations while the clock runs.
NextSend ==
    \/ MsgRoom(MaxMsgs) /\
          \E r \in Slots, t \in ChatTokens, c \in ConvIds :
              PostMessageStart(r, t, c, ClientStatus)
    \/ \E r \in Slots : PostMessageInsert(r)
    \/ \E r \in Slots : PostMessageBump(r)
    \/ Tick(MaxChatTime)

SpecSend == InitMsg /\ [][NextSend]_vars

\* Sending anywhere: as above, and also into a conversation id that no row has.
NextPost ==
    \/ MsgRoom(MaxMsgs) /\
          \E r \in Slots, t \in ChatTokens, c \in 1..(MaxConvs + 1) :
              PostMessageStart(r, t, c, ClientStatus)
    \/ \E r \in Slots : PostMessageInsert(r)
    \/ \E r \in Slots : PostMessageBump(r)
    \/ Tick(MaxChatTime)

SpecPost == InitMsg /\ [][NextPost]_vars

\* Listing: sends, reads and conversation lists, one request at a time, while
\* the clock advances.
NextList ==
    \/ Quiet /\ \E r \in Slots, t \in ChatTokens : GetConversationsStart(r, t)
    \/ \E r \in Slots, k \in ConvIds : GetConversationsMessages(r, k)
    \/ \E r \in Slots, k \in ConvIds : GetConversationsUnread(r, k)
    \/ \E r \in Slots : GetConversationsRespond(r)
    \/ Quiet /\ MsgRoom(MaxMsgs) /\
          \E r \in Slots, t \in ChatTokens, c \in ConvIds :
              PostMessageStart(r, t, c, ClientStatus)
    \/ \E r \in Slots : PostMessageInsert(r)
    \/ \E r \in Slots : PostMessageBump(r)
    \/ Quiet /\ \E r \in Slots, t \in ChatTokens, c \in ConvIds : GetMessagesStart(r, t, c)
    \/ \E r \in Slots : GetMessagesSelect(r)
    \/ \E r \in Slots : GetMessagesMark(r)
    \/ \E r \in Slots : GetMessagesRespond(r)
    \/ Tick(MaxChatTime)

SpecList == InitMsg /\ [][NextList]_vars

\* Unknown ids: reads, sends and deletes that may name a conversation id or a
\* message id that no row has, one request at a time.
NextUnknown ==
    \/ Quiet /\ \E r \in Slots, t \in ChatTokens, c \in 1..(MaxConvs + 1) :
          GetMessagesStart(r, t, c)
    \/ \E r \in Slots : GetMessagesSelect(r)
    \/ \E r \in Slots : GetMessagesMark(r)
    \/ \E r \in Slots : GetMessagesRespond(r)
    \/ Quiet /\ MsgRoom(MaxMsgs) /\
          \E r \in Slots, t \in ChatTokens, c \in 1..(MaxConvs + 1) :
              PostMessageStart(r, t, c, ClientStatus)
    \/ \E r \in Slots : PostMessageInsert(r)
    \/ \E r \in Slots : PostMessageBump(r)
    \/ Quiet /\ \E r \in Slots, t \in ChatTokens, m \in 1..(MaxMsgs + 1) :
          DeleteMessageStart(r, t, m)
    \/ \E r \in Slots : DeleteMessageUpdate(r)
    \/ Quiet /\ \E r \in Slots, t \in ChatTokens, c \in 1..(MaxConvs + 1) :
          DeleteConversationStart(r, t, c)
    \/ \E r \in Slots : DeleteConversationSelect(r)
    \/ \E r \in Slots, m \in MsgIds : DeleteConversationUpdate(r, m)
    \/ \E r \in Slots : DeleteConversationRespond(r)

SpecUnknown == InitMsg /\ [][NextUnknown]_vars

\* Erasing: users 1 and 2 create conversations with each other by requests
\* that interleave freely and send messages; any user asks for the deletion
\* of a conversation. Sends and deletes start when no request is in flight.
Talkers == {1, 2}
NextErase ==
    \/ \E r \in Slots, u \in Talkers, name \in Talkers :
          PostConversationStart(r, Sign(u, JWT_SECRET, now), name)
    \/ \E r \in Slots : PostConversationLookup(r)
    \/ \E r \in Slots : PostConversationCreate(r)
    \/ Quiet /\ MsgRoom(MaxMsgs) /\
          \E r \in Slots, u \in Talkers, c \in ConvIds :
              PostMessageStart(r, Sign(u, JWT_SECRET, now), c, ClientStatus)
    \/ \E r \in Slots : PostMessageInsert(r)
    \/ \E r \in Slots : PostMessageBump(r)
    \/ Quiet /\ \E r \in Slots, t \in ChatTokens, c \in ConvIds :
          DeleteConversationStart(r, t, c)
    \/ \E r \in Slots : DeleteConversationSelect(r)
    \/ \E r \in Slots, m \in MsgIds : DeleteConversationUpdate(r, m)
    \/ \E r \in Slots : DeleteConversationRespond(r)

SpecErase == InitConv /\ [][NextErase]_vars

\* Statuses: sends whose body names any status of the schema or none, and
\* the two updates of stored messages (delete, mark as read), one request at
\* a time.
NextStatus ==
    \/ Quiet /\ MsgRoom(MaxMsgs) /\
          \E r \in Slots, t \in ChatTokens, c \in ConvIds, status \in Statuses \cup {NoStatus} :
              PostMessageStart(r, t, c, status)
    \/ \E r \in Slots : PostMessageInsert(r)
    \/ \E r \in Slots : PostMessageBump(r)
    \/ Quiet /\ \E r \in Slots, t \in ChatTokens, m \in MsgIds : DeleteMessageStart(r, t, m)
    \/ \E r \in Slots : DeleteMessageUpdate(r)
    \/ Quiet /\ \E r \in Slots, t \in ChatTokens, c \in ConvIds : GetMessagesStart(r, t, c)
    \/ \E r \in Slots : GetMessagesSelect(r)
    \/ \E r \in Slots : GetMessagesMark(r)
    \/ \E r \in Slots : GetMessagesRespond(r)

SpecStatus == InitMsg /\ [][NextStatus]_vars

\* Failing sends: a send may fail between its insert and its bump; reads
\* follow; one request at a time, while the clock advances.
NextCrash ==
    \/ Quiet /\ MsgRoom(MaxMsgs) /\
          \E r \in Slots, t \in ChatTokens, c \in ConvIds :
              PostMessageStart(r, t, c, ClientStatus)
    \/ \E r \in Slots : PostMessageInsert(r)
    \/ \E r \in Slots : PostMessageBump(r)
    \/ \E r \in Slots : PostMessageBumpFails(r)
    \/ Quiet /\ \E r \in Slots, t \in ChatTokens, c \in ConvIds : GetMessagesStart(r, t, c)
    \/ \E r \in Slots : GetMessagesSelect(r)
    \/ \E r \in Slots : GetMessagesMark(r)
    \/ \E r \in Slots : GetMessagesRespond(r)
    \/ Tick(MaxChatTime)

SpecCrash == InitMsg /\ [][NextCrash]_vars

\* Blocking: users 1 and 2 block any user id, sign in, open conversations
\* with each other and send, one request at a time.
NextBlock ==
    \/ Quiet /\ \E u \in Talkers, userId \in 1..(NumUsers + 1) :
          BlockProfile(Sign(u, JWT_SECRET, now), userId)
    \/ Quiet /\ \E u \in Talkers : Signin(u, u)
    \/ Quiet /\ \E r \in Slots, u \in Talkers, name \in Talkers :
          PostConversationStart(r, Sign(u, JWT_SECRET, now), name)
    \/ \E r \in Slots : PostConversationLookup(r)
    \/ \E r \in Slots : PostConversationCreate(r)
    \/ Quiet /\ MsgRoom(MaxMsgs) /\
          \E r \in Slots, u \in Talkers, c \in ConvIds :
              PostMessageStart(r, Sign(u, JWT_SECRET, now), c, ClientStatus)
    \/ \E r \in Slots : PostMessageInsert(r)
    \/ \E r \in Slots : PostMessageBump(r)

SpecBlock == InitConv /\ [][NextBlock]_vars

\* Deleting: sends and deletes into the two conversations, requests
\* interleaving freely.
NextDelete ==
    \/ MsgRoom(MaxMsgs) /\
          \E r \in Slots, t \in ChatTokens, c \in ConvIds :
              PostMessageStart(r, t, c, ClientStatus)
    \/ \E r \in Slots : PostMessageInsert(r)
    \/ \E r \in Slots : PostMessageBump(r)
    \/ \E r \in Slots, t \in ChatTokens, m \in MsgIds : DeleteMessageStart(r, t, m)
    \/ \E r \in Slots : DeleteMessageUpdate(r)

SpecDelete == InitMsg /\ [][NextDelete]_vars

\* Tombstones: sending, deleting messages and conversations, reading and
\* listing, one request at a time.
NextTomb ==
    \/ Quiet /\ MsgRoom(MaxMsgs) /\
          \E r \in Slots, t \in ChatTokens, c \in ConvIds :
              PostMessageStart(r, t, c, ClientStatus)
    \/ \E r \in Slots : PostMessageInsert(r)
    \/ \E r \in Slots : PostMessageBump(r)
    \/ Quiet /\ \E r \in Slots, t \in ChatTokens, m \in MsgIds : DeleteMessageStart(r, t, m)
    \/ \E r \in Slots : DeleteMessageUpdate(r)
    \/ Quiet /\ \E r \in Slots, t \in ChatTokens, c \in ConvIds :
          DeleteConversationStart(r, t, c)
    \/ \E r \in Slots : DeleteConversationSelect(r)
    \/ \E r \in Slots, m \in MsgIds : DeleteConversationUpdate(r, m)
    \/ \E r \in Slots : DeleteConversationRespond(r)
    \/ Quiet /\ \E r \in Slots, t \in ChatTokens, c \in ConvIds : GetMessagesStart(r, t, c)
    \/ \E r \in Slots : GetMessagesSelect(r)
    \/ \E r \in Slots : GetMessagesMark(r)
    \/ \E r \in Slots : GetMessagesRespond(r)
    \/ Quiet /\ \E r \in Slots, t \in ChatTokens : GetConversationsStart(r, t)
    \/ \E r \in Slots, k \in ConvIds : GetConversationsMessages(r, k)
    \/ \E r \in Slots, k \in ConvIds : GetConversationsUnread(r, k)
    \/ \E r \in Slots : GetConversationsRespond(r)

SpecTomb == InitMsg /\ [][NextTomb]_vars

\* End to end: bob (user 1) is registered; anyone may sign up and sign in,
\* open conversations, send through the client and read, one request at a
\* time.  bob presents the token of an earlier signin, everyone else a token
\* issued here.
Bob == 1
InitE2E ==
    /\ profiles = <<[id |-> Bob, email |-> 1, username |-> 1, password |-> Hash(1),
                     is_blocked |-> ProfileDefaults.is_blocked]>>
    /\ conversations = <<>>
    /\ messages = <<>>
    /\ now = 0
    /\ req = [r \in Slots |-> IdleReq]
    /\ issued = {}
    /\ firstConv = [pr \in Pairs |-> 0]
    /\ readState = [x \in {<<Bob, 1>>} |-> "none"]
    /\ out = NoOut
    /\ client = NoClient

E2ETokens == issued \cup {Sign(Bob, JWT_SECRET, 0)}

NextE2E ==
    \/ Quiet /\ \E r \in Slots, e \in Emails, u \in Usernames, p \in Passwords :
          SignupCheckEmail(r, e, u, p)
    \/ \E r \in Slots : SignupCheckUsername(r)
    \/ \E r \in Slots : SignupCreate(r)
    \/ Quiet /\ \E e \in Emails, p \in Passwords : Signin(e, p)
    \/ Quiet /\ \E r \in Slots, t \in E2ETokens, name \in Usernames :
          PostConversationStart(r, t, name)
    \/ \E r \in Slots : PostConversationLookup(r)
    \/ \E r \in Slots : PostConversationCreate(r)
    \/ Quiet /\ MsgRoom(MaxMsgs) /\
          \E r \in Slots, t \in E2ETokens, c \in ConvIds :
              PostMessageStart(r, t, c, ClientStatus)
    \/ \E r \in Slots : PostMessageInsert(r)
    \/ \E r \in Slots : PostMessageBump(r)
    \/ Quiet /\ \E r \in Slots, t \in E2ETokens, c \in ConvIds : GetMessagesStart(r, t, c)
    \/ \E r \in Slots : GetMessagesSelect(r)
    \/ \E r \in Slots : GetMessagesMark(r)
    \/ \E r \in Slots : GetMessagesRespond(r)

SpecE2E == InitE2E /\ [][NextE2E]_vars

\* Every route that answers with a profile object, one request at a time,
\* from the same start: signup, signin, the current user, the profile
\* searches and update, and the conversation and message routes.
NextShow ==
    \/ NextE2E
    \/ Quiet /\ \E t \in E2ETokens : GetAuthUser(t)
    \/ Quiet /\ \E t \in E2ETokens, name \in Usernames : ProfileSearch(t, name)
    \/ Quiet /\ \E t \in E2ETokens, e \in Emails : ProfileSearchByEmail(t, e)
    \/ Quiet /\ \E t \in E2ETokens : PatchProfile(t)
    \/ Quiet /\ \E r \in Slots, t \in E2ETokens : GetConversationsStart(r, t)
    \/ \E r \in Slots, k \in ConvIds : GetConversationsMessages(r, k)
    \/ \E r \in Slots, k \in ConvIds : GetConversationsUnread(r, k)
    \/ \E r \in Slots : GetConversationsRespond(r)

SpecShow == InitE2E /\ [][NextShow]_vars

\* The guard: the protected routes on messages and conversation lists, offered
\* missing, forged, expired and valid tokens and the verified token of a user
\* id that has no profile; one request at a time.
ExpiredToken == Sign(1, JWT_SECRET, 0 - TokenTTL)
StrangerToken == Sign(NumUsers + 1, JWT_SECRET, 0)
GuardTokens == ChatTokens \cup {ExpiredToken, StrangerToken}

NextGuard ==
    \/ Quiet /\ \E t \in GuardTokens : Refused(t)
    \/ Quiet /\ \E t \in GuardTokens : Signout(t)
    \/ Quiet /\ \E t \in GuardTokens : GetAuthUser(t)
    \/ Quiet /\ \E r \in Slots, t \in GuardTokens : GetConversationsStart(r, t)
    \/ \E r \in Slots, k \in ConvIds : GetConversationsMessages(r, k)
    \/ \E r \in Slots, k \in ConvIds : GetConversationsUnread(r, k)
    \/ \E r \in Slots : GetConversationsRespond(r)
    \/ Quiet /\ MsgRoom(MaxMsgs) /\
          \E r \in Slots, t \in GuardTokens, c \in ConvIds :
              PostMessageStart(r, t, c, ClientStatus)
    \/ \E r \in Slots : PostMessageInsert(r)
    \/ \E r \in Slots : PostMessageBump(r)
    \/ Quiet /\ \E r \in Slots, t \in GuardTokens, m \in MsgIds : DeleteMessageStart(r, t, m)
    \/ \E r \in Slots : DeleteMessageUpdate(r)
    \/ Quiet /\ \E r \in Slots, t \in GuardTokens, c \in ConvIds :
          DeleteConversationStart(r, t, c)
    \/ \E r \in Slots : DeleteConversationSelect(r)
    \/ \E r \in Slots, m \in MsgIds : DeleteConversationUpdate(r, m)
    \/ \E r \in Slots : DeleteConversationRespond(r)
    \/ Quiet /\ \E r \in Slots, t \in GuardTokens, c \in ConvIds : GetMessagesStart(r, t, c)
    \/ \E r \in Slots : GetMessagesSelect(r)
    \/ \E r \in Slots : GetMessagesMark(r)
    \/ \E r \in Slots : GetMessagesRespond(r)

SpecGuard == InitMsg /\ [][NextGuard]_vars

\* The auth context: one browser whose localStorage holds no token, the
\* token of user 1 signed at time 0, or a token that was not made with the
\* secret; user 1 is registered, a second profile can sign up.
StoredTokens == {NoToken, ForgedToken, Sign(1, JWT_SECRET, 0)}
InitAuth ==
    /\ profiles = <<[id |-> 1, email |-> 1, username |-> 1, password |-> Hash(1),
                     is_blocked |-> ProfileDefaults.is_blocked]>>
    /\ conversations = <<>>
    /\ messages = <<>>
    /\ now = 0
    /\ req = [r \in Slots |-> IdleReq]
    /\ issued = {}
    /\ firstConv = [pr \in Pairs |-> 0]
    /\ readState = <<>>
    /\ out = NoOut
    /\ client \in {setToken(NoClient, t) : t \in StoredTokens}

NextAuth ==
    \/ checkAuthState
    \/ \E reached \in BOOLEAN : checkAuthStateAnswered(reached)
    \/ \E e \in Emails, p \in Passwords : signIn(e, p)
    \/ \E reached \in BOOLEAN : signInAnswered(reached)
    \/ \E e \in Emails, u \in Usernames, p \in Passwords : signUp(e, u, p)
    \/ \E reached \in BOOLEAN : signUpAnswered(reached)
    \/ signOut
    \/ \E reached \in BOOLEAN : signOutAnswered(reached)
    \/ refreshUser
    \/ \E reached \in BOOLEAN : refreshUserAnswered(reached)
    \/ ClientTick(MaxTime)

SpecAuth == InitAuth /\ [][NextAuth]_vars

\* Reading: users 1 and 2 share the one conversation, user 3 is an outsider,
\* and one of the two participants is under observation; reading, sending and
\* listing interleave freely.
InitRead ==
    /\ profiles = RegisteredProfiles
    /\ conversations =
          <<[id |-> 1, participant_1 |-> 1, participant_2 |-> 2, updated_at |-> 0]>>
    /\ messages = <<>>
    /\ now = 0
    /\ req = [r \in Slots |-> IdleReq]
    /\ issued = {}
    /\ firstConv = [pr \in Pairs |-> IF pr = {1, 2} THEN 1 ELSE 0]
    /\ \E w \in {<<1, 1>>, <<2, 1>>} : readState = [x \in {w} |-> "none"]
    /\ out = NoOut
    /\ client = NoClient

NextRead ==
    \/ \E r \in Slots, t \in ChatTokens, c \in ConvIds : GetMessagesStart(r, t, c)
    \/ \E r \in Slots : GetMessagesSelect(r)
    \/ \E r \in Slots : GetMessagesMark(r)
    \/ \E r \in Slots : GetMessagesRespond(r)
    \/ MsgRoom(MaxMsgs) /\
          \E r \in Slots, t \in ChatTokens, c \in ConvIds :
              PostMessageStart(r, t, c, ClientStatus)
    \/ \E r \in Slots : PostMessageInsert(r)
    \/ \E r \in Slots : PostMessageBump(r)
    \/ \E r \in Slots, t \in ChatTokens : GetConversationsStart(r, t)
    \/ \E r \in Slots, k \in ConvIds : GetConversationsMessages(r, k)
    \/ \E r \in Slots, k \in ConvIds : GetConversationsUnread(r, k)
    \/ \E r \in Slots : GetConversationsRespond(r)

SpecRead == InitRead /\ [][NextRead]_vars

\* ------------------------------------------------------------------- claims

\* C1: when POST /conversations requests run one after the other, every
\* successful request for a pair of users returns the id the first completed
\* request for that pair returned, from whichever side it comes, and a
\* request for a pair that already completed one inserts no conversation row.
C1_SameId ==
    (out.op = "postConversation" /\ out.status = 200)
    => out.id = firstConv[{out.caller, out.other}]
C1_NoNewRow ==
    (/\ out'.op = "postConversation" /\ out'.status = 200
     /\ firstConv[{out'.caller, out'.other}] # 0)
    => conversations' = conversations
C1_SequentialIdempotence == []C1_SameId /\ [][C1_NoNewRow]_vars
\* B, naming A, was answered with the row that A created.
C1_Witness ==
    /\ out.op = "postConversation" /\ out.status = 200
    /\ out.id \in 1..Len(conversations)
    /\ conversations[out.id].participant_1 = out.other
    /\ conversations[out.id].participant_2 = out.caller

\* C2: under any interleaving of POST /conversations requests, at most one
\* conversation row exists for each unordered pair of participants.
C2_OneRowPerPair ==
    \A pr \in Pairs :
        Cardinality({c \in RowsOf(conversations) :
                        {c.participant_1, c.participant_2} = pr}) <= 1

\* C6: no GET messages handler ever gets past the membership check for a user
\* who is not a participant; the request of an authenticated user who is
\* neither participant_1 nor participant_2 of an existing conversation is
\* answered 403 with no message, and no row of messages changes.
C6_NoOutsiderReading ==
    \A s \in Slots :
        req[s].op = "getMessages" =>
            \E c \in RowsOf(conversations) :
                /\ c.id = req[s].conv
                /\ req[s].user \in {c.participant_1, c.participant_2}
C6_OutsiderRefused ==
    \A r \in Slots, t \in ChatTokens, c \in ConvIds :
        (/\ GetMessagesStart(r, t, c)
         /\ \E conversation \in RowsOf(conversations) :
               /\ conversation.id = c
               /\ authenticateToken(t).user \notin
                      {conversation.participant_1, conversation.participant_2})
        => /\ out'.op = "getMessages" /\ out'.status = 403
           /\ out'.body = <<>>
           /\ messages' = messages
C6_NonParticipantGet403 == []C6_NoOutsiderReading /\ [][C6_OutsiderRefused]_vars
\* The outsider was refused while the conversation holds an unread message.
C6_Witness ==
    /\ out.op = "getMessages" /\ out.status = 403
    /\ \E c \in RowsOf(conversations) :
          /\ c.id = out.conv
          /\ out.caller \notin {c.participant_1, c.participant_2}
    /\ \E m \in RowsOf(messages) : m.conversation_id = out.conv /\ ~m.is_read

\* C7: when a GET messages of participant U is answered, every message of the
\* conversation not sent by U that was stored when the handler selected the
\* rows (so every one stored when the request started) has is_read = TRUE; and
\* a GET /conversations of U reports unread_count 0 for a conversation for
\* which a GET messages of U has been answered, provided the other participant
\* inserted no message since a markMessagesAsRead of U for it ran.
C7_SeenAreRead ==
    (out.op = "getMessages" /\ out.status = 200)
    => \A m \in RowsOf(messages) :
           (/\ m.conversation_id = out.conv
            /\ m.sender_id # out.caller
            /\ m.id <= out.seen)
           => m.is_read = TRUE
C7_UnreadZeroSinceMark ==
    (out.op = "getConversations" /\ out.status = 200)
    => \A k \in 1..Len(out.body) :
           (/\ <<out.caller, out.body[k].id>> \in DOMAIN out.after
            /\ out.after[<<out.caller, out.body[k].id>>] = "doneClean")
           => out.body[k].unread_count = 0
C7_ReadAfterGet == C7_SeenAreRead /\ C7_UnreadZeroSinceMark
\* The listing reports 0 for a conversation that holds a message of the other
\* participant, after U read it.
C7_Witness ==
    /\ out.op = "getConversations" /\ out.status = 200
    /\ \E k \in 1..Len(out.body) :
          /\ <<out.caller, out.body[k].id>> \in DOMAIN out.after
          /\ out.after[<<out.caller, out.body[k].id>>] = "doneClean"
          /\ out.body[k].unread_count = 0
          /\ \E m \in RowsOf(messages) :
                m.conversation_id = out.body[k].id /\ m.sender_id # out.caller
\* C7 as stated: the proviso covers only the time since the GET messages was
\* answered.
C7_UnreadZeroSinceAnswer ==
    (out.op = "getConversations" /\ out.status = 200)
    => \A k \in 1..Len(out.body) :
           (/\ <<out.caller, out.body[k].id>> \in DOMAIN out.after
            /\ out.after[<<out.caller, out.body[k].id>>] \in {"doneClean", "doneDirty"})
           => out.body[k].unread_count = 0

\* C8: the answer to a participant's GET messages holds every stored message
\* of the conversation once, flagged deleted or not, holds no other message,
\* carries the stored fields, and is in ascending order of created_at.
C8_ExactlyStoredInOrder ==
    (out.op = "getMessages" /\ out.status = 200)
    => /\ {out.body[i].id : i \in 1..Len(out.body)} =
              {m.id : m \in {x \in RowsOf(messages) : x.conversation_id = out.conv}}
       /\ \A i, j \in 1..Len(out.body) :
              i < j => /\ out.body[i].id # out.body[j].id
                       /\ out.body[i].created_at <= out.body[j].created_at
       /\ \A i \in 1..Len(out.body) :
              /\ out.body[i].conversation_id = out.conv
              /\ out.body[i].sender_id = messages[out.body[i].id].sender_id
              /\ out.body[i].created_at = messages[out.body[i].id].created_at
\* The answer holds two messages of different times, the earlier one flagged
\* deleted.
C8_Witness ==
    /\ out.op = "getMessages" /\ out.status = 200
    /\ Len(out.body) = 2
    /\ out.body[1].created_at < out.body[2].created_at
    /\ messages[out.body[1].id].is_deleted

C10_OnlySenderDeleting ==
    \A s \in Slots :
        req[s].op = "deleteMessage" =>
            \E m \in RowsOf(messages) : m.id = req[s].msg /\ m.sender_id = req[s].user
C10_NonSenderRefused ==
    \A r \in Slots, t \in ChatTokens, m \in MsgIds :
        (/\ DeleteMessageStart(r, t, m)
         /\ \E message \in RowsOf(messages) :
               message.id = m /\ message.sender_id # authenticateToken(t).user)
        => /\ out'.op = "deleteMessage" /\ out'.status = 403
           /\ messages' = messages
C10_NonSenderDelete403 == []C10_OnlySenderDeleting /\ [][C10_NonSenderRefused]_vars
\* The other participant of the conversation was refused; the message stands.
C10_Witness ==
    /\ out.op = "deleteMessage" /\ out.status = 403
    /\ out.id \in 1..Len(messages)
    /\ Member(messages[out.id].conversation_id, out.caller)
    /\ messages[out.id].sender_id # out.caller
    /\ ~messages[out.id].is_deleted

\* C11: no step removes a message row or changes a row's id; a successful
\* DELETE message sets is_deleted of that one row and changes nothing else in
\* the tables; a row flagged deleted is still in the answer of GET messages
\* and still counted by the unread_count of GET /conversations.
C11_IdsOnlyGrow ==
    /\ Len(messages') >= Len(messages)
    /\ \A i \in 1..Len(messages) : messages'[i].id = messages[i].id
C11_DeleteFlagsOne ==
    (out'.op = "deleteMessage" /\ out'.status = 200)
    => /\ out'.id \in 1..Len(messages)
       /\ messages' = [messages EXCEPT ![out'.id].is_deleted = TRUE]
       /\ conversations' = conversations
       /\ profiles' = profiles
C11_TombstoneReturned ==
    (out.op = "getMessages" /\ out.status = 200)
    => \A m \in RowsOf(messages) :
           (m.conversation_id = out.conv /\ m.is_deleted)
           => \E i \in 1..Len(out.body) : out.body[i].id = m.id
C11_TombstoneCounted ==
    (out.op = "getConversations" /\ out.status = 200)
    => \A k \in 1..Len(out.body) :
           out.body[k].unread_count >=
               Cardinality({m \in RowsOf(messages) :
                               /\ m.conversation_id = out.body[k].id
                               /\ m.sender_id # out.caller
                               /\ ~m.is_read /\ m.is_deleted})
C11_SoftDeleteOnly ==
    /\ [](C11_TombstoneReturned /\ C11_TombstoneCounted)
    /\ [][C11_IdsOnlyGrow /\ C11_DeleteFlagsOne]_vars
\* The listing counts an unread message that its sender deleted.
C11_Witness ==
    /\ out.op = "getConversations" /\ out.status = 200
    /\ \E k \in 1..Len(out.body) :
          /\ out.body[k].unread_count >= 1
          /\ \A m \in RowsOf(messages) :
                (/\ m.conversation_id = out.body[k].id
                 /\ m.sender_id # out.caller /\ ~m.is_read)
                => m.is_deleted

\* C12: alice signed up and was issued a token, opened conversation 1 naming
\* bob, and her one message went through the client.  Then as long as no GET
\* messages of bob has marked since, the stored message has is_read = FALSE;
\* and the answer to bob's GET messages holds exactly that message, with
\* alice's id as sender_id and status "sent", and the stored message has
\* is_read = TRUE.
C12_Scenario ==
    /\ Len(conversations) >= 1
    /\ conversations[1].participant_2 = Bob
    /\ \E t \in issued : t.userId = conversations[1].participant_1
    /\ Cardinality({m \in RowsOf(messages) : m.conversation_id = 1}) = 1
    /\ \A m \in RowsOf(messages) :
          m.conversation_id = 1 => m.sender_id = conversations[1].participant_1
    /\ \A s \in Slots : req[s].op # "postMessage"
C12_EndToEnd ==
    C12_Scenario =>
        LET hello == CHOOSE m \in RowsOf(messages) : m.conversation_id = 1 IN
        /\ readState[<<Bob, 1>>] = "none" => hello.is_read = FALSE
        /\ (out.op = "getMessages" /\ out.status = 200 /\ out.caller = Bob /\ out.conv = 1)
           => /\ Len(out.body) = 1
              /\ out.body[1].id = hello.id
              /\ out.body[1].sender_id = conversations[1].participant_1
              /\ out.body[1].status = "sent"
              /\ hello.is_read = TRUE
\* bob's fetch is answered in the scenario.
C12_Witness ==
    /\ C12_Scenario
    /\ out.op = "getMessages" /\ out.status = 200 /\ out.caller = Bob /\ out.conv = 1
    /\ Len(out.body) = 1

\* C13: a token is accepted only if it is present, verifies and names an
\* existing profile; the middleware answers 401 to a missing token, 403 to
\* one that fails verification and 401 to a verified one whose user id has no
\* profile; a refusal changes no table and starts no handler; no handler of
\* a protected route takes a step for a token that is not accepted, and every
\* request in flight runs as an existing profile.
C13_Accepted(t) ==
    /\ t # NoToken
    /\ Verify(t, JWT_SECRET, now)
    /\ \E p \in RowsOf(profiles) : p.id = t.userId
C13_Codes ==
    \A t \in GuardTokens :
        authenticateToken(t).status =
            IF t = NoToken THEN 401
            ELSE IF ~Verify(t, JWT_SECRET, now) THEN 403
            ELSE IF \A p \in RowsOf(profiles) : p.id # t.userId THEN 401
            ELSE 200
C13_RunAsProfile ==
    \A s \in Slots :
        req[s].op # "idle" => \E p \in RowsOf(profiles) : p.id = req[s].user
C13_RefusalChangesNothing ==
    out'.op = "authenticateToken"
    => /\ out'.status \in {401, 403}
       /\ ~C13_Accepted(out'.token)
       /\ <<profiles, conversations, messages, req>>' =
              <<profiles, conversations, messages, req>>
C13_NoHandlerStep ==
    \A t \in GuardTokens :
        ~C13_Accepted(t) =>
            /\ ~Signout(t)
            /\ ~GetAuthUser(t)
            /\ \A r \in Slots :
                  /\ ~GetConversationsStart(r, t)
                  /\ \A c \in ConvIds :
                        /\ ~GetMessagesStart(r, t, c)
                        /\ ~PostMessageStart(r, t, c, ClientStatus)
                        /\ ~DeleteConversationStart(r, t, c)
                  /\ \A m \in MsgIds : ~DeleteMessageStart(r, t, m)
C13_TokenRequired ==
    /\ [](C13_Codes /\ C13_RunAsProfile)
    /\ [][C13_RefusalChangesNothing /\ C13_NoHandlerStep]_vars
\* The verified token of a user id without profile was refused with 401 while
\* the tables hold a message.
C13_Witness ==
    /\ out.op = "authenticateToken" /\ out.status = 401
    /\ out.token = StrangerToken
    /\ Len(messages) >= 1

\* C14: the sender of every stored message is participant_1 or participant_2
\* of the message's conversation; a POST messages by a user who is no
\* participant of the conversation, or for a conversation id that no row has,
\* is answered with an error, inserts no message, bumps no updated_at and
\* leaves no request behind that would do so later.
C14_Outsider(u, c) ==
    \A k \in RowsOf(conversations) :
        k.id = c => u # k.participant_1 /\ u # k.participant_2
C14_SenderParticipates ==
    \A m \in RowsOf(messages) : ~C14_Outsider(m.sender_id, m.conversation_id)
C14_NoOutsiderSending ==
    \A s \in Slots :
        req[s].op = "postMessage" => ~C14_Outsider(req[s].user, req[s].conv)
C14_OutsiderRejected ==
    \A r \in Slots, u \in Users, c \in 1..(MaxConvs + 1) :
        (C14_Outsider(u, c) /\ PostMessageStart(r, Sign(u, JWT_SECRET, now), c, ClientStatus))
        => /\ out'.op = "postMessage" /\ out'.status >= 400
           /\ messages' = messages
           /\ conversations' = conversations
           /\ req' = req
C14_OnlyParticipantsSend ==
    /\ [](C14_SenderParticipates /\ C14_NoOutsiderSending)
    /\ [][C14_OutsiderRejected]_vars
\* A send into a conversation id that no row has was rejected while a message
\* of a participant is stored.
C14_Witness ==
    /\ out.op = "postMessage" /\ out.status >= 400
    /\ out.conv = MaxConvs + 1
    /\ Len(messages) >= 1

\* C15: no stored conversation has participant_1 = participant_2; a POST
\* /conversations that names the caller's own username is answered 400, one
\* that names a username no profile has is answered 404, and neither creates
\* a row nor leaves a request behind that would.
C15_Distinct ==
    \A c \in RowsOf(conversations) : c.participant_1 # c.participant_2
C15_NoSelfInFlight ==
    \A s \in Slots : req[s].op = "postConversation" => req[s].user # req[s].other
C15_Rejected ==
    \A r \in Slots, u \in Users, name \in 1..(NumUsers + 1) :
        PostConversationStart(r, Sign(u, JWT_SECRET, now), name)
        => /\ (\A p \in RowsOf(profiles) : p.username # name)
                 => out'.op = "postConversation" /\ out'.status = 404
           /\ (\E p \in RowsOf(profiles) : p.username = name /\ p.id = u)
                 => out'.op = "postConversation" /\ out'.status = 400
           /\ ~(\E p \in RowsOf(profiles) : p.username = name /\ p.id # u)
                 => conversations' = conversations /\ req' = req
C15_NoSelfConversation ==
    /\ [](C15_Distinct /\ C15_NoSelfInFlight)
    /\ [][C15_Rejected]_vars
\* A request naming the caller's own username was answered 400 while a
\* conversation is stored.
C15_Witness ==
    /\ out.op = "postConversation" /\ out.status = 400
    /\ Len(conversations) >= 1

\* C16: a GET /conversations of user U that is served without another request
\* in between answers with exactly the conversations U participates in, each
\* once, in descending order of updated_at; each entry names the participant
\* that is not U as other_participant, a message of the conversation with the
\* greatest created_at as last_message (none when the conversation has no
\* message) and the number of messages not sent by U and not read as
\* unread_count.
C16_MessagesOf(c) == {m \in RowsOf(messages) : m.conversation_id = c}
C16_EntryRight(entry, U) ==
    \E c \in RowsOf(conversations) :
        /\ c.id = entry.id
        /\ entry.updated_at = c.updated_at
        /\ U \in {c.participant_1, c.participant_2}
        /\ entry.other_participant \in {c.participant_1, c.participant_2}
        /\ entry.other_participant # U
        /\ IF C16_MessagesOf(c.id) = {} THEN entry.last_message = 0
           ELSE \E m \in C16_MessagesOf(c.id) :
                   /\ m.id = entry.last_message
                   /\ \A n \in C16_MessagesOf(c.id) : n.created_at <= m.created_at
        /\ entry.unread_count =
              Cardinality({m \in C16_MessagesOf(c.id) : m.sender_id # U /\ ~m.is_read})
C16_ListOfConversations ==
    (out.op = "getConversations" /\ out.status = 200)
    => /\ \A k \in 1..Len(out.body) : C16_EntryRight(out.body[k], out.caller)
       /\ \A c \in RowsOf(conversations) :
             out.caller \in {c.participant_1, c.participant_2}
             => Cardinality({k \in 1..Len(out.body) : out.body[k].id = c.id}) = 1
       /\ \A i, j \in 1..Len(out.body) :
             i < j => out.body[i].updated_at >= out.body[j].updated_at
\* A list of two conversations with different updated_at, the first with an
\* unread message as its last message.
C16_Witness ==
    /\ out.op = "getConversations" /\ out.status = 200
    /\ Len(out.body) = 2
    /\ out.body[1].updated_at > out.body[2].updated_at
    /\ out.body[1].last_message # 0
    /\ out.body[1].unread_count >= 1

\* C17: every request that names a conversation id or a message id that no
\* row has is answered 404: GET messages, POST messages and DELETE
\* conversation for an unknown conversation, DELETE message for an unknown
\* message.
C17_Step ==
    \A r \in Slots, u \in Users :
        /\ \A c \in 1..(MaxConvs + 1) :
              (\A k \in RowsOf(conversations) : k.id # c)
              => /\ GetMessagesStart(r, Sign(u, JWT_SECRET, now), c) => out'.status = 404
                 /\ PostMessageStart(r, Sign(u, JWT_SECRET, now), c, ClientStatus)
                       => out'.status = 404
                 /\ DeleteConversationStart(r, Sign(u, JWT_SECRET, now), c)
                       => out'.status = 404
        /\ \A m \in 1..(MaxMsgs + 1) :
              (\A k \in RowsOf(messages) : k.id # m)
              => (DeleteMessageStart(r, Sign(u, JWT_SECRET, now), m) => out'.status = 404)
C17_UnknownGets404 == [][C17_Step]_vars

\* C18: when DELETE /conversations/:id of a participant is answered, every
\* message of the conversation that existed when the request started is
\* flagged is_deleted, whoever sent it; the conversation row is still stored
\* and is in the conversation list of both participants; a POST
\* /conversations of either participant naming the other finds the same id.
\* A DELETE by a user who is no participant is answered 403 and changes no
\* message.
C18_Answered ==
    (out.op = "deleteConversation" /\ out.status = 200)
    => /\ \A m \in RowsOf(messages) :
             (m.conversation_id = out.conv /\ m.id <= out.seen) => m.is_deleted
       /\ \E c \in RowsOf(conversations) :
             /\ c.id = out.conv
             /\ \A u \in {c.participant_1, c.participant_2} :
                   \A list \in getConversationsForUser(u) :
                       /\ \E k \in 1..Len(list) : list[k].id = out.conv
                       /\ FindExisting(list, u,
                                       IF u = c.participant_1 THEN c.participant_2
                                       ELSE c.participant_1) = out.conv
C18_Refused ==
    \A r \in Slots, u \in Users, c \in ConvIds :
        ( /\ \E k \in RowsOf(conversations) :
                k.id = c /\ u # k.participant_1 /\ u # k.participant_2
          /\ DeleteConversationStart(r, Sign(u, JWT_SECRET, now), c) )
        => out'.status = 403 /\ messages' = messages /\ req' = req
C18_ConversationKept ==
    /\ []C18_Answered
    /\ [][C18_Refused]_vars

\* C19: the exchange on mount: once checkAuthState is through, loading is
\* false; with no stored token nothing else changed; after a failed exchange
\* the stored token is gone and user and session are null; after a successful
\* one user and session hold the profile the server returned for the token.
C19_MountStep ==
    (client.check # "done" /\ client'.check = "done")
    => /\ ~client'.loading
       /\ \/ /\ client.authToken = NoToken
             /\ client'.authToken = NoToken
             /\ client'.user = 0 /\ client'.session = NoSession
          \/ /\ client.authToken # NoToken
             /\ client'.authToken = NoToken /\ client'.token = NoToken
             /\ client'.user = 0 /\ client'.session = NoSession
          \/ /\ client.authToken # NoToken
             /\ Verify(client.authToken, JWT_SECRET, now)
             /\ client'.authToken = client.authToken
             /\ client'.user = client.authToken.userId
             /\ client'.session.user = client'.user
             /\ client'.session.access_token = client.authToken
C19_MountExchange == [][C19_MountStep]_vars
\* C19, the consequence it draws: whenever loading is false and user is
\* non-null, a token is stored.
C19_TokenWhileSignedIn ==
    (~client.loading /\ client.user # 0) => client.authToken # NoToken

\* C20: no profile object in any response has a password field: the user
\* and session.user of signup, signin and GET /auth/user, the
\* other_participant of the conversation routes, the sender of the message
\* routes, the search results and the updated profile.
C20_NoPasswordShown ==
    \A p \in out.shown : "password" \notin DOMAIN p
\* A conversation list was answered with the other participant's profile,
\* whose row holds a password hash.
C20_Witness ==
    /\ out.op = "getConversations" /\ out.status = 200
    /\ \E p \in out.shown :
          \E q \in RowsOf(profiles) : q.id = p.id /\ "password" \in DOMAIN q

\* C28: every message that a GET messages request marks as read is in the
\* list the same request returns, whatever a concurrent POST messages of the
\* other participant does.
C28_MarkStep ==
    \A r \in Slots :
        GetMessagesMark(r)
        => \A i \in 1..Len(messages) :
              (~messages[i].is_read /\ messages'[i].is_read)
              => \E k \in 1..Len(req[r].list) : req[r].list[k] = messages[i].id
C28_MarkedAreReturned == [][C28_MarkStep]_vars

\* C23 as stated: no stored message has status "delivered" or "failed".
C23_NeverDeliveredOrFailed ==
    \A m \in RowsOf(messages) : m.status \notin {"delivered", "failed"}
\* C23, amended: a stored message has the status that the body of its POST
\* named, "sent" when the body named none, and its status never changes
\* after it is inserted.
C23_StatusOfBody ==
    \A r \in Slots :
        (req[r].op = "idle" /\ req'[r].op = "postMessage")
        => \A u \in Users, c \in ConvIds, status \in Statuses \cup {NoStatus} :
              PostMessageStart(r, Sign(u, JWT_SECRET, now), c, status)
              => req'[r].status = IF status = NoStatus THEN "sent" ELSE status
C23_InsertKeepsStatus ==
    \A r \in Slots :
        PostMessageInsert(r)
        => /\ Len(messages') = Len(messages) + 1
           /\ messages'[Len(messages')].status = req[r].status
C23_StatusFixed ==
    /\ Len(messages') >= Len(messages)
    /\ \A i \in 1..Len(messages) : messages'[i].status = messages[i].status
C23_StatusNeverChanges ==
    [][C23_StatusOfBody /\ C23_InsertKeepsStatus /\ C23_StatusFixed]_vars
\* A message stored as "delivered" has since been read and deleted.
C23_Witness ==
    \E m \in RowsOf(messages) : m.status = "delivered" /\ m.is_read /\ m.is_deleted

\* C24: when a POST messages fails after its insert and before its bump, the
\* caller gets an error response, the inserted message stays stored and the
\* conversation's updated_at stays as it was; a later GET messages of the
\* conversation returns every stored message of it, that one included.
C24_FailureKeepsInsert ==
    \A r \in Slots :
        (/\ req[r].op = "postMessage" /\ req[r].pc = "bump"
         /\ req'[r].op = "idle" /\ out'.status >= 400)
        => /\ \E m \in RowsOf(messages') :
                 /\ m.id = req[r].msg
                 /\ m.conversation_id = req[r].conv /\ m.sender_id = req[r].user
           /\ messages' = messages
           /\ conversations' = conversations
C24_GetReturnsStored ==
    (out.op = "getMessages" /\ out.status = 200)
    => \A m \in RowsOf(messages) :
          m.conversation_id = out.conv
          => \E k \in 1..Len(out.body) : out.body[k].id = m.id
C24_InsertSurvivesFailure ==
    /\ []C24_GetReturnsStored
    /\ [][C24_FailureKeepsInsert]_vars
\* A GET messages returned a message that is newer than its conversation's
\* updated_at: its bump never ran.
C24_Witness ==
    /\ out.op = "getMessages" /\ out.status = 200
    /\ \E k \in 1..Len(out.body) :
          \E c \in RowsOf(conversations) :
              c.id = out.conv /\ out.body[k].created_at > c.updated_at

\* C26: POST /profiles/:userId/block answers 400 to a caller naming itself
\* and 404 for a user id without profile, changing no profile; otherwise it
\* sets is_blocked on the named profile and changes nothing else. A blocked
\* profile's token is still accepted, its sign-in still succeeds, and its
\* POST /conversations and POST messages are served as before.
C26_BlockStep ==
    \A u \in Talkers, userId \in 1..(NumUsers + 1) :
        BlockProfile(Sign(u, JWT_SECRET, now), userId)
        => /\ userId = u => out'.status = 400 /\ profiles' = profiles
           /\ (userId # u /\ \A p \in RowsOf(profiles) : p.id # userId)
                 => out'.status = 404 /\ profiles' = profiles
           /\ (userId # u /\ \E p \in RowsOf(profiles) : p.id = userId)
                 => /\ out'.status = 200
                    /\ Len(profiles') = Len(profiles)
                    /\ \A i \in 1..Len(profiles) :
                          profiles'[i] = IF profiles[i].id = userId
                                         THEN [profiles[i] EXCEPT !.is_blocked = TRUE]
                                         ELSE profiles[i]
           /\ <<conversations, messages, req>>' = <<conversations, messages, req>>
C26_BlockedStillServed ==
    \A p \in RowsOf(profiles) :
        p.is_blocked
        => /\ authenticateToken(Sign(p.id, JWT_SECRET, now)).status = 200
           /\ SigninResponse(p.email, p.id).status = 200
C26_BlockedNotRefused ==
    \A r \in Slots, u \in Talkers :
        (\E p \in RowsOf(profiles) : p.id = u /\ p.is_blocked)
        => /\ \A name \in Talkers \ {u} :
                 PostConversationStart(r, Sign(u, JWT_SECRET, now), name)
                 => req'[r].op = "postConversation"
           /\ \A c \in ConvIds :
                 (PostMessageStart(r, Sign(u, JWT_SECRET, now), c, ClientStatus)
                  /\ ~C14_Outsider(u, c) /\ getConversation(c) # {})
                 => req'[r].op = "postMessage"
C25_SignOutEnds ==
    (client.signOut = "await" /\ client'.signOut = "idle")
    => /\ client'.authToken = NoToken /\ client'.token = NoToken
       /\ client'.user = 0 /\ client'.session = NoSession
C25_FailedSignIn ==
    \A reached \in BOOLEAN :
        (/\ signInAnswered(reached)
         /\ ~(reached /\ SigninResponse(client.email, client.password).status = 200))
        => /\ client'.user = client.user /\ client'.session = client.session
           /\ client'.authToken = client.authToken
           /\ ~client'.loading
C25_SignOutClears == [][C25_SignOutEnds /\ C25_FailedSignIn]_vars
\* signOut has ended for a provider that had signed in by the stored token.
C25_Witness ==
    /\ client.toast = "signedOut" /\ client.signOut = "idle"
    /\ client.checkSent # NoToken
    /\ client.authToken = NoToken /\ client.user = 0

\* C3: no two profiles share an email and no two share a username, under any
\* interleaving of signup requests; and a signup step taken when a profile
\* already has the request's email or username answers 400 and adds no
\* profile.
UniqueProfiles ==
    \A i, j \in 1..Len(profiles) :
        i # j => /\ profiles[i].email # profiles[j].email
                 /\ profiles[i].username # profiles[j].username
SignupDuplicateRejected ==
    (/\ out'.op = "signup"
     /\ \E p \in RowsOf(profiles) : p.email = out'.email \/ p.username = out'.username)
    => (out'.status = 400 /\ profiles' = profiles)
C3_SignupUniqueness == []UniqueProfiles /\ [][SignupDuplicateRejected]_vars
\* Two signups passed both existence checks and the database refused the later insert.
C3_Witness ==
    /\ out.op = "signup" /\ out.status = 400
    /\ out.error \in {"EmailInUse", "UsernameInUse"}
    /\ Len(profiles) >= 1

\* C4: a token issued by signin or signup for user U, presented before it
\* expires, is never refused by the middleware, and GET /auth/user answers
\* 200 with the profile whose id is U.
C4_IssuedTokenAccepted ==
    (out.token \in issued /\ now < out.token.exp)
    => /\ out.op # "authenticateToken"
       /\ out.op = "getUser" => (out.status = 200 /\ out.id = out.token.userId)
\* An issued token is accepted after the clock moved and another account was created.
C4_Witness ==
    /\ out.op = "getUser" /\ out.status = 200 /\ out.token \in issued
    /\ out.id = out.token.userId
    /\ now > 0 /\ Len(profiles) >= 2

\* C5: for well-formed payloads, signin answers an unknown email exactly as it
\* answers a known email with a password that does not match, and neither
\* answer carries a token.
C5_SigninGenericError ==
    \A e1, e2 \in Emails, p1, p2 \in Passwords :
        (/\ \A p \in RowsOf(profiles) : p.email # e1
         /\ \E p \in RowsOf(profiles) : p.email = e2 /\ p.password # Hash(p2))
        => /\ SigninResponse(e1, p1) = SigninResponse(e2, p2)
           /\ SigninResponse(e1, p1).token = NoToken
           /\ SigninResponse(e1, p1).status # 200
\* A wrong password was just refused while some email is still unregistered.
C5_Witness ==
    /\ out.op = "signin" /\ out.status = 400
    /\ \E p \in RowsOf(profiles) : p.email = out.email /\ p.password # Hash(out.password)
    /\ \E e \in Emails : \A p \in RowsOf(profiles) : p.email # e

\* ------------------------------------------------------------- the chat area
\* ChatLayout keeps the selected conversation (0 for null) and renders one
\* ChatArea for it, which is never remounted: its state outlives a selection.
\* ChatArea keeps the list of messages on screen, the text of the input, its
\* loading flag (sending) and isOnline.  Its two calls of the API are in
\* flight from the await to the answer: the server serves each in one step
\* (or the request fails), and the answer reaches the pane in a later step.
MaxShown == 3
MaxFetches == 2
MaxCallFetches == 1
MaxSends == 1
\* The texts the input may hold: empty, blank and a non-blank one.
Drafts == {"", " ", "hi"}
Trim(text) == IF text = " " THEN "" ELSE text

\* `temp-${Date.now()}`: kept apart from the server's ids by its sign.
TempId(t) == 0 - (t + 1)
IsTemp(m) == m.id < 0
\* A row of the API as the pane holds it; every POST of the pane names
\* is_offline false.
PaneRow(row) ==
    [id |-> row.id, conversation_id |-> row.conversation_id,
     sender_id |-> row.sender_id, status |-> row.status, is_offline |-> FALSE]
Without(list, i) == [j \in 1..(Len(list) - 1) |-> IF j < i THEN list[j] ELSE list[j + 1]]
\* The conversations ConversationsList shows to the user.
Listed == {c.id : c \in {c \in RowsOf(conversations) : IsParticipant(c, client.user)}}

\* The form of the chat area: the input and the button as rendered.
InputEnabled ==
    ChatShown /\ client.conversation # 0 /\ ~client.sending /\ client.isOnline
\* A button that stays enabled without a connection.
SubmitEnabledOffline ==
    /\ ChatShown /\ client.conversation # 0
    /\ ~client.sending /\ Trim(client.newMessage) # ""
SubmitEnabled ==
    /\ ChatShown /\ client.conversation # 0
    /\ ~client.sending /\ Trim(client.newMessage) # "" /\ client.isOnline

\* onChange of the input
setNewMessage(text) ==
    /\ InputEnabled
    /\ text # client.newMessage
    /\ client' = [client EXCEPT !.newMessage = text]
    /\ UNCHANGED server

\* An online event that sends what was kept while offline.
handleOnlineDrains ==
    /\ client' = [client EXCEPT
          !.isOnline = TRUE, !.toast = "online",
          !.messages = [j \in 1..Len(@) |->
                           IF IsTemp(@[j]) THEN [@[j] EXCEPT !.status = ClientStatus]
                           ELSE @[j]]]
    /\ UNCHANGED server
\* The window's online and offline events
handleOnline ==
    /\ client' = [client EXCEPT !.isOnline = TRUE, !.toast = "online"]
    /\ UNCHANGED server
handleOffline ==
    /\ client' = [client EXCEPT !.isOnline = FALSE, !.toast = "offline"]
    /\ UNCHANGED server

\* fetchMessages up to its await: the request leaves with the selected id.
fetchMessages(c, conversationId) ==
    [c EXCEPT !.fetches = Append(c.fetches,
                 [conv |-> conversationId, token |-> c.token,
                  phase |-> "sent", data |-> <<>>])]
\* A click in the list.  ConversationsList loads its rows again every five
\* seconds, so a click on the selected conversation may hand over a new
\* object (fresh), and the effect runs whenever the object changes.  At most
\* limit fetches are in flight.
handleSelectConversation(conversationId, fresh, limit) ==
    /\ ChatShown
    /\ conversationId \in Listed
    /\ IF conversationId # client.conversation \/ fresh
       THEN /\ Len(client.fetches) < limit
            /\ client' = fetchMessages([client EXCEPT !.conversation = conversationId],
                                       conversationId)
       ELSE client' = client
    /\ conversationId # client.conversation \/ fresh
    /\ UNCHANGED server
handleBackToList ==
    /\ ChatShown
    /\ client.conversation # 0
    /\ client' = [client EXCEPT !.conversation = 0]
    /\ UNCHANGED server

\* GET messages of the pane at the server, or the request fails on the way.
FetchServed(i, reached) ==
    /\ i \in 1..Len(client.fetches)
    /\ client.fetches[i].phase = "sent"
    /\ LET f == client.fetches[i]
           auth == authenticateToken(f.token)
       IN  IF reached /\ auth.status = 200 /\ Member(f.conv, auth.user)
           THEN /\ \E list \in getMessagesForConversation(f.conv) :
                      client' = [client EXCEPT
                          !.fetches[i].phase = "answered",
                          !.fetches[i].data = [j \in 1..Len(list) |-> PaneRow(list[j])]]
                /\ messages' = markMessagesAsRead(f.conv, auth.user)
           ELSE /\ client' = [client EXCEPT !.fetches[i].phase = "failed"]
                /\ messages' = messages
    /\ out' = NoOut
    /\ UNCHANGED <<profiles, conversations, now, req, issued, firstConv, readState>>
\* fetchMessages after its await: the answer replaces the list; an error is
\* only logged.
fetchMessagesAnswered(i) ==
    /\ i \in 1..Len(client.fetches)
    /\ client.fetches[i].phase # "sent"
    /\ client' = [client EXCEPT
          !.messages = IF client.fetches[i].phase = "answered"
                       THEN client.fetches[i].data ELSE @,
          !.fetches = Without(@, i)]
    /\ UNCHANGED server

\* A sendMessage that keeps nothing while offline.
sendMessageDropsOffline ==
    /\ Trim(client.newMessage) # "" /\ client.conversation # 0 /\ client.user # 0
    /\ IF ~client.isOnline
       THEN client' = [client EXCEPT !.newMessage = ""]
       ELSE /\ Len(client.sends) < MaxSends
            /\ client' = [client EXCEPT
                  !.newMessage = "", !.sending = TRUE,
                  !.sends = Append(@, [conv |-> client.conversation,
                                       token |-> client.token,
                                       phase |-> "sent", data |-> <<>>])]
    /\ UNCHANGED server
\* sendMessage up to its return or its await
sendMessage ==
    /\ Trim(client.newMessage) # "" /\ client.conversation # 0 /\ client.user # 0
    /\ IF ~client.isOnline
       THEN /\ Len(client.messages) < MaxShown
            /\ client' = [client EXCEPT
                  !.newMessage = "",
                  !.messages = Append(@,
                      [id |-> TempId(now), conversation_id |-> client.conversation,
                       sender_id |-> client.user, status |-> "sending",
                       is_offline |-> TRUE]),
                  !.toast = "savedLocally"]
       ELSE /\ Len(client.sends) < MaxSends
            /\ client' = [client EXCEPT
                  !.newMessage = "", !.sending = TRUE,
                  !.sends = Append(@, [conv |-> client.conversation,
                                       token |-> client.token,
                                       phase |-> "sent", data |-> <<>>])]
    /\ UNCHANGED server
\* The form is submitted: only an enabled button submits it.
onSubmit ==
    /\ SubmitEnabled
    /\ sendMessage

\* POST messages of the pane at the server, or the request fails on the way.
SendServed(i, reached) ==
    /\ i \in 1..Len(client.sends)
    /\ client.sends[i].phase = "sent"
    /\ LET f == client.sends[i]
           auth == authenticateToken(f.token)
       IN  IF reached /\ auth.status = 200 /\ Member(f.conv, auth.user)
           THEN /\ Len(messages) < MaxMsgs
                /\ messages' = createMessage(f.conv, auth.user, ClientStatus)
                /\ conversations' = updateConversation(f.conv)
                /\ client' = [client EXCEPT
                      !.sends[i].phase = "answered",
                      !.sends[i].data =
                          <<PaneRow(createMessage(f.conv, auth.user, ClientStatus)
                                     [Len(messages) + 1])>>]
           ELSE /\ client' = [client EXCEPT !.sends[i].phase = "failed"]
                /\ UNCHANGED <<messages, conversations>>
    /\ out' = NoOut
    /\ UNCHANGED <<profiles, now, req, issued, firstConv, readState>>
\* sendMessage after its await: the answer is appended to the list, an error
\* raises a toast, and loading ends either way.
sendMessageAnswered(i) ==
    /\ i \in 1..Len(client.sends)
    /\ client.sends[i].phase # "sent"
    /\ client.sends[i].phase = "answered" => Len(client.messages) < MaxShown
    /\ client' = [client EXCEPT
          !.messages = IF client.sends[i].phase = "answered"
                       THEN @ \o client.sends[i].data ELSE @,
          !.toast = IF client.sends[i].phase = "failed" THEN "sendError" ELSE @,
          !.sending = FALSE,
          !.sends = Without(@, i)]
    /\ UNCHANGED server

\* The pane of user 2, who is in both conversations, signed in at time 0.
PaneUser == 2
InitPane ==
    /\ profiles = RegisteredProfiles
    /\ conversations =
          <<[id |-> 1, participant_1 |-> 1, participant_2 |-> 2, updated_at |-> 0],
            [id |-> 2, participant_1 |-> 2, participant_2 |-> 3, updated_at |-> 0]>>
    /\ messages = <<>>
    /\ now = 0
    /\ req = [r \in Slots |-> IdleReq]
    /\ issued = {Sign(PaneUser, JWT_SECRET, 0)}
    /\ firstConv = [pr \in Pairs |->
                       IF pr = {1, 2} THEN 1 ELSE IF pr = {2, 3} THEN 2 ELSE 0]
    /\ readState = <<>>
    /\ out = NoOut
    /\ \E online \in BOOLEAN :
          client = [setToken(NoClient, Sign(PaneUser, JWT_SECRET, 0)) EXCEPT
                       !.user = PaneUser,
                       !.session = [access_token |-> Sign(PaneUser, JWT_SECRET, 0),
                                    user |-> PaneUser],
                       !.loading = FALSE, !.check = "done",
                       !.isOnline = online]

\* The pane as the user drives it through the rendered form.
NextPane ==
    \/ \E text \in Drafts : setNewMessage(text)
    \/ handleOnline
    \/ handleOffline
    \/ \E c \in 1..MaxConvs, fresh \in BOOLEAN :
          handleSelectConversation(c, fresh, MaxFetches)
    \/ handleBackToList
    \/ \E i \in 1..MaxFetches, reached \in BOOLEAN : FetchServed(i, reached)
    \/ \E i \in 1..MaxFetches : fetchMessagesAnswered(i)
    \/ onSubmit
    \/ \E i \in 1..MaxSends, reached \in BOOLEAN : SendServed(i, reached)
    \/ \E i \in 1..MaxSends : sendMessageAnswered(i)
    \/ Tick(MaxChatTime)

SpecPane == InitPane /\ [][NextPane]_vars

\* The handlers of the pane called in any state the component can be in:
\* sendMessage runs whether or not the button is rendered enabled.
NextPaneCalls ==
    \/ \E text \in Drafts : setNewMessage(text)
    \/ handleOnline
    \/ handleOffline
    \/ \E c \in 1..MaxConvs, fresh \in BOOLEAN :
          handleSelectConversation(c, fresh, MaxCallFetches)
    \/ handleBackToList
    \/ \E i \in 1..MaxCallFetches, reached \in BOOLEAN : FetchServed(i, reached)
    \/ \E i \in 1..MaxCallFetches : fetchMessagesAnswered(i)
    \/ sendMessage
    \/ \E i \in 1..MaxSends, reached \in BOOLEAN : SendServed(i, reached)
    \/ \E i \in 1..MaxSends : sendMessageAnswered(i)
    \/ Tick(MaxChatTime)

SpecPaneCalls == InitPane /\ [][NextPaneCalls]_vars

C21_OfflineSend ==
    (/\ ~client.isOnline /\ Trim(client.newMessage) # ""
     /\ client.conversation # 0 /\ client.user # 0
     /\ client'.newMessage = "")
    => /\ Len(client'.messages) = Len(client.messages) + 1
       /\ SubSeq(client'.messages, 1, Len(client.messages)) = client.messages
       /\ LET m == client'.messages[Len(client'.messages)]
          IN  /\ IsTemp(m) /\ m.status = "sending" /\ m.is_offline
              /\ m.sender_id = client.user
              /\ m.conversation_id = client.conversation
       /\ client'.sends = client.sends /\ client'.fetches = client.fetches
       /\ client'.sending = client.sending
       /\ UNCHANGED <<profiles, conversations, messages>>
C21_OfflineSendAppends == [][C21_OfflineSend]_vars
\* A message made offline is on screen in its conversation.
C21_Witness ==
    /\ ~client.isOnline /\ client.newMessage = "" /\ client.toast = "savedLocally"
    /\ \E m \in RowsOf(client.messages) :
          IsTemp(m) /\ m.conversation_id = client.conversation

\* C22: a message composed offline is never sent by the pane on its own.
\* Whatever online and offline events follow, a message with a temp id on
\* screen has status "sending"; a request to POST leaves only when a typed
\* text is submitted with a connection; a row enters the server's table only
\* when such a request is served, under the server's own id; a step that
\* changes isOnline raises a toast and changes nothing else; and the message
\* leaves the screen only when the answer of a fetch replaces the list.
C22_StaysSending ==
    /\ \A m \in RowsOf(client.messages) :
          IsTemp(m) => (m.status = "sending" /\ m.is_offline)
    /\ \A m \in RowsOf(messages) : ~IsTemp(m)
C22_Step ==
    /\ client'.isOnline # client.isOnline
       => /\ client' = [client EXCEPT !.isOnline = client'.isOnline,
                                      !.toast = client'.toast]
          /\ client'.toast = IF client'.isOnline THEN "online" ELSE "offline"
          /\ UNCHANGED server
    /\ Len(client'.sends) > Len(client.sends)
       => /\ client.isOnline /\ Trim(client.newMessage) # ""
          /\ client'.newMessage = ""
          /\ client'.messages = client.messages
    /\ Len(messages') > Len(messages)
       => \E i \in 1..Len(client.sends) :
             /\ client.sends[i].phase = "sent"
             /\ client'.sends[i].phase = "answered"
    /\ \A m \in RowsOf(client.messages) :
          (IsTemp(m) /\ client'.messages # client.messages)
          => \/ m \in RowsOf(client'.messages)
             \/ \E i \in 1..Len(client.fetches) : client.fetches[i].phase = "answered"
C27_ListOfSelected ==
    client.conversation # 0
    => \A m \in RowsOf(client.messages) : m.conversation_id = client.conversation

\* C30: the pane's list never holds two entries with the same id, for any
\* interleaving of the answers of fetches, which replace the list, and the
\* answers of sends, which append to it.
C30_DistinctIds ==
    \A i, j \in 1..Len(client.messages) :
        client.messages[i].id = client.messages[j].id => i = j
====
